----------------------------- MODULE ProcProofs -----------------------------
(***************************************************************************)
(* Proofs about the process table for any number of slots and CPUs: the    *)
(* kernel stacks, the wakeups and the parents of HW3/source/proc.c, and    *)
(* that Proc implements ProcessTree.                                       *)
(***************************************************************************)
EXTENDS Proc, TLAPS

Alive == {"SLEEPING", "RUNNABLE", "RUNNING"}

\* Where the thread is, or goes on once it is scheduled again.
Where(p) == IF pc[p] = "yielded" THEN ret[p] ELSE pc[p]
ForkPcs == {"fork parent", "fork acquire", "fork run"}
ExitPcs == {"exit", "exit acquire", "reparent", "zombie"}

\* The state of a process says where its thread is: on the way through swtch
\* with p->lock held, or in the code of a system call with the lock free.
Places ==
    \A p \in Procs :
        /\ state[p] \in {"UNUSED", "USED", "ZOMBIE"} => pc[p] = "none"
        /\ state[p] = "RUNNABLE" => pc[p] \in {"yielded", "slept"}
        /\ state[p] = "SLEEPING" => pc[p] = "slept" /\ chan[p] = p
        /\ state[p] = "RUNNING" => /\ pc[p] # "none"
                                   /\ plock[p] <=> pc[p] \in {"yielded", "slept"}
        /\ pc[p] # "yielded" => ret[p] = "user"
        /\ ret[p] \in {"user", "kernel", "fork parent", "fork run", "exit", "relock"}

\* Only a process on a CPU has its lock held across a switch.
Stacks == OneCpuPerProc /\ \A p \in Procs : plock[p] => OnCpu(p)

\* wait_lock is held where the code between its acquire and release is.
Locked == \A p \in Procs : wait_lock = p <=> pc[p] \in WaitLockPcs

\* init lives and does not exit.
InitLives ==
    /\ state[initproc] \in Alive
    /\ parent[initproc] = None
    /\ killed[initproc] = 0
    /\ Where(initproc) \notin ExitPcs

\* A fork under way has a slot of its own,
ForkSlots ==
    /\ \A p \in Procs : child[p] # None => state[child[p]] = "USED"
    /\ \A p, q \in Procs : child[p] = child[q] /\ child[p] # None => p = q

\* whose parent is set half-way.
ForkPlaces ==
    \A p \in Procs :
        /\ Where(p) \in ForkPcs <=> child[p] # None
        /\ Where(p) \in {"fork parent", "fork acquire"} => parent[child[p]] = None
        /\ Where(p) = "fork run" => parent[child[p]] = p

Forks == ForkSlots /\ ForkPlaces

\* Parents live, whatever is in the table has one, and whoever exits has handed
\* over its children before it becomes a zombie.
Family ==
    /\ \A q \in Procs :
        /\ state[q] = "UNUSED" => parent[q] = None
        /\ state[q] \notin {"UNUSED", "USED"} /\ q # initproc => parent[q] # None
        /\ parent[q] # None => state[parent[q]] \in Alive
    /\ \A p, q \in Procs : pc[p] = "zombie" => parent[q] # p

\* While the wakeup of an exit is under way, or the decision to sleep in wait,
\* nobody can come in between.
Wakeups ==
    /\ NoLostWakeup
    /\ \A p \in Procs : pc[p] = "zombie" => state[parent[p]] # "SLEEPING"
    /\ \A p, q \in Procs : pc[p] = "sleep" /\ parent[q] = p => state[q] # "ZOMBIE"

IInv == TypeOK /\ Places /\ Stacks /\ Locked /\ InitLives /\ Forks /\ Family /\ Wakeups

-----------------------------------------------------------------------------
\* userinit establishes the inductive invariant.
LEMMA InitIInv == Init => IInv
  BY ProcAssumption DEF Init, IInv, TypeOK, Places, Stacks, Locked, InitLives, Forks, Family,
     Wakeups, OneCpuPerProc, OnCpu, NoLostWakeup, Children, ForkSlots, ForkPlaces, Where, ForkPcs,
     ExitPcs, Alive, States, Pcs, WaitLockPcs

\* The steps that move a thread to another place and change nothing else: the
\* entry of system calls, failed calls, and acquire turning interrupts off.
Move(p, l) ==
    /\ Runs(p, pc[p])
    /\ pc[p] \in {"user", "kernel", "fork parent", "exit", "relock"}
    /\ l \in {"user", "kernel", "exit", "wait acquire", "fork acquire", "exit acquire"}
    /\ l = "fork acquire" <=> pc[p] = "fork parent"
    /\ l \in {"exit", "exit acquire"} => pc[p] = "exit" \/ killed[p] = 1 \/ p # initproc
    /\ Goto(p, l)
    /\ UNCHANGED <<table, child, plock, wait_lock, cpu, ret>>

\* The timer takes the CPU from p at l, and p goes on at r.
Yields(p, l, r) ==
    /\ YieldFrom(p, l, r)
    /\ \/ l = "kernel" /\ r = "user"
       \/ l \in {"kernel", "fork parent", "fork run", "exit", "relock"} /\ r = l

\* reparent gives the child q of p to init.
Adopts(p, q) ==
    /\ Runs(p, "reparent") /\ parent[q] = p
    /\ parent' = [parent EXCEPT ![q] = initproc]
    /\ CanWakeup(initproc)
    /\ state' = Wakeup(p, initproc)
    /\ UNCHANGED <<chan, killed, pc, child, plock, wait_lock, cpu, ret>>

\* Every step is one of these.
LEMMA NextCases ==
  ASSUME IInv, [Next]_vars
  PROVE  \/ \E c \in CPUs, p \in Procs : Schedule(c, p)
         \/ \E c \in CPUs : SwitchOut(c)
         \/ \E p \in Procs : Resume(p) \/ Awake(p)
         \/ \E p \in Procs, l \in Pcs : Move(p, l)
         \/ \E p \in Procs, l \in Pcs, r \in Pcs : Yields(p, l, r)
         \/ \E p \in Procs, np \in Procs : ForkAlloc(p, np)
         \/ \E p \in Procs : ForkParent(p) \/ ForkRun(p)
         \/ \E p \in Procs, q \in Victims : Kill(p, q)
         \/ \E p \in Procs : ExitLock(p) \/ WakeParent(p) \/ Zombie(p)
         \/ \E p \in Procs : WaitLock(p) \/ NoZombie(p) \/ Sleep(p)
         \/ \E p \in Procs, q \in Procs : Reap(p, q) \/ ReapFault(p, q) \/ Adopts(p, q)
         \/ UNCHANGED vars
  <1>1. ASSUME NEW p \in Procs, UserTrap(p) \/ ForkFail(p) \/ ExitCall(p) \/ WaitCall(p)
        PROVE  \E l \in Pcs : Move(p, l)
    <2>1. CASE UserTrap(p) /\ killed[p] = 1
      BY <2>1 DEF UserTrap, Move, Runs, Pcs
    <2>2. CASE UserTrap(p) /\ killed[p] # 1
      BY <2>2 DEF UserTrap, Move, Runs, Pcs
    <2>3. CASE ForkFail(p)
      BY <2>3 DEF ForkFail, Move, Runs, Pcs
    <2>4. CASE ExitCall(p)
      BY <2>4 DEF ExitCall, Move, Runs, Pcs
    <2>5. CASE WaitCall(p)
      BY <2>5 DEF WaitCall, Move, Runs, Pcs
    <2> QED
      BY <1>1, <2>1, <2>2, <2>3, <2>4, <2>5
  <1>2. ASSUME NEW p \in Procs, PushOff(p)
        PROVE  \E l \in Pcs : Move(p, l)
    <2>1. PICK l \in {"fork parent", "exit", "relock"} :
              Runs(p, l) /\ Goto(p, Spin[l]) /\ UNCHANGED <<table, ret, child, plock, wait_lock, cpu>>
      BY <1>2 DEF PushOff, Spin
    <2>2. Move(p, Spin[l]) /\ Spin[l] \in Pcs
      BY <2>1 DEF Move, Runs, Spin, Pcs
    <2> QED
      BY <2>2
  <1>3. ASSUME NEW p \in Procs, Yield(p) \/ KernelYield(p)
        PROVE  \E l \in Pcs, r \in Pcs : Yields(p, l, r)
    BY <1>3 DEF Yield, KernelYield, Yields, Pcs
  <1>4. ASSUME NEW p \in Procs, Reparent(p) PROVE \E q \in Procs : Adopts(p, q)
    BY <1>4 DEF Reparent, Adopts, Children
  <1> QED
    BY <1>1, <1>2, <1>3, <1>4 DEF Next, SysCall, ForkStep, ExitStep, WaitStep

\* A thread in the code of a system call is RUNNING, and its lock is free.
LEMMA Inside ==
  ASSUME IInv, NEW p \in Procs, pc[p] \notin {"none", "yielded", "slept"}
  PROVE  state[p] = "RUNNING" /\ ~plock[p] /\ Where(p) = pc[p] /\ ret[p] = "user"
  BY DEF IInv, TypeOK, States, Places, Where

\* The slot that fork works on.
LEMMA ForkSlot ==
  ASSUME IInv, NEW p \in Procs, pc[p] \in ForkPcs
  PROVE  /\ child[p] \in Procs /\ state[child[p]] = "USED" /\ pc[child[p]] = "none"
         /\ child[p] # p /\ child[p] # initproc /\ ret[child[p]] = "user"
         /\ pc[p] = "fork acquire" => parent[child[p]] = None
         /\ pc[p] = "fork run" => parent[child[p]] = p
  <1>1. Where(p) = pc[p] /\ state[p] = "RUNNING"
    BY Inside DEF ForkPcs
  <1>2. child[p] \in Procs /\ state[child[p]] = "USED"
    BY <1>1 DEF IInv, Forks, ForkSlots, ForkPlaces, TypeOK
  <1>3. pc[child[p]] = "none" /\ ret[child[p]] = "user"
    BY <1>2 DEF IInv, Places
  <1> QED
    BY <1>1, <1>2, <1>3 DEF IInv, Forks, ForkPlaces, InitLives, Alive

\* A slot that is free or set up by fork has no children.
LEMMA Childless ==
  ASSUME IInv, NEW p \in Procs, state[p] \in {"UNUSED", "USED", "ZOMBIE"}
  PROVE  \A r \in Procs : parent[r] # p
  <1>1. state[p] \notin Alive /\ p # None
    BY ProcAssumption DEF Alive
  <1>2. \A r \in Procs : parent[r] # None => state[parent[r]] \in Alive
    BY DEF IInv, Family
  <1> QED
    BY <1>1, <1>2

\* init is not in exit.
LEMMA InitPlace == ASSUME IInv PROVE pc[initproc] \notin ExitPcs
  BY DEF IInv, InitLives, Where, ExitPcs

\* A process in exit has a parent to wake up.
LEMMA HasParent == ASSUME IInv PROVE \A p \in Procs : pc[p] \in ExitPcs => parent[p] \in Procs
  <1>1. SUFFICES ASSUME NEW p \in Procs, pc[p] \in ExitPcs PROVE parent[p] \in Procs
    OBVIOUS
  <1>2. state[p] = "RUNNING"
    BY <1>1, Inside DEF ExitPcs
  <1>3. p # initproc
    BY <1>1, InitPlace
  <1> QED
    BY <1>2, <1>3 DEF IInv, Family, TypeOK

\* Nobody else is where wait_lock is held.
LEMMA Alone ==
  ASSUME IInv, NEW p \in Procs, pc[p] \in WaitLockPcs
  PROVE  wait_lock = p /\ \A r \in Procs : pc[r] \in WaitLockPcs => r = p
  BY ProcAssumption DEF IInv, Locked

\* What a turn of reparent's loop does: init is awake afterwards.
LEMMA AdoptsEffect ==
  ASSUME IInv, NEW p \in Procs, NEW q \in Procs, Adopts(p, q)
  PROVE  /\ pc[p] = "reparent" /\ p # initproc /\ parent[q] = p
         /\ state'[initproc] \in {"RUNNABLE", "RUNNING"}
         /\ \A r \in Procs : r # initproc => state'[r] = state[r]
         /\ parent' = [parent EXCEPT ![q] = initproc]
         /\ pc' = pc /\ ret' = ret /\ child' = child /\ killed' = killed
  <1>1. pc[p] = "reparent" /\ p # initproc
    BY InitPlace DEF Adopts, Runs, ExitPcs
  <1>2. state[initproc] \in Alive /\ (state[initproc] = "SLEEPING" => chan[initproc] = initproc)
    BY ProcAssumption DEF IInv, InitLives, Places
  <1>3. state \in [Procs -> States] /\ initproc \in Procs
    BY ProcAssumption DEF IInv, TypeOK
  <1>4. CASE state[initproc] = "SLEEPING"
    <2>1. state' = [state EXCEPT ![initproc] = "RUNNABLE"]
      BY <1>1, <1>2, <1>4 DEF Adopts, Wakeup
    <2> QED
      BY <1>1, <1>3, <2>1 DEF Adopts
  <1>5. CASE state[initproc] # "SLEEPING"
    <2>1. state' = state
      BY <1>5 DEF Adopts, Wakeup
    <2> QED
      BY <1>1, <1>2, <1>5, <2>1 DEF Adopts, Alive
  <1> QED
    BY <1>4, <1>5

\* What the wakeup in exit does: the parent is awake afterwards.
LEMMA WakeParentEffect ==
  ASSUME IInv, NEW p \in Procs, WakeParent(p)
  PROVE  /\ pc[p] = "reparent" /\ p # initproc /\ \A q \in Procs : parent[q] # p
         /\ parent[p] \in Procs
         /\ state'[parent[p]] \in {"RUNNABLE", "RUNNING"} /\ state[parent[p]] \in Alive
         /\ \A r \in Procs : r # parent[p] => state'[r] = state[r]
         /\ pc' = [pc EXCEPT ![p] = "zombie"]
         /\ parent' = parent /\ ret' = ret /\ child' = child /\ killed' = killed
  <1>1. pc[p] = "reparent" /\ p # initproc
    BY InitPlace DEF WakeParent, Runs, ExitPcs
  <1>2. \A q \in Procs : parent[q] # p
    BY DEF WakeParent, Children
  <1>3. state[p] = "RUNNING"
    BY <1>1, Inside
  <1>4. parent[p] \in Procs /\ state[parent[p]] \in Alive
    BY <1>1, <1>3 DEF IInv, TypeOK, Family
  <1>5. state[parent[p]] = "SLEEPING" => chan[parent[p]] = parent[p]
    BY <1>4 DEF IInv, Places
  <1>6. state \in [Procs -> States]
    BY DEF IInv, TypeOK
  <1>7. /\ pc' = [pc EXCEPT ![p] = "zombie"]
        /\ parent' = parent /\ ret' = ret /\ child' = child /\ killed' = killed
    BY DEF WakeParent, Goto
  <1>8. CASE state[parent[p]] = "SLEEPING"
    <2>1. state' = [state EXCEPT ![parent[p]] = "RUNNABLE"]
      BY <1>2, <1>5, <1>8 DEF WakeParent, Wakeup
    <2> QED
      BY <1>1, <1>2, <1>4, <1>6, <1>7, <2>1
  <1>9. CASE state[parent[p]] # "SLEEPING"
    <2>1. state' = state
      BY <1>9 DEF WakeParent, Wakeup
    <2> QED
      BY <1>1, <1>2, <1>4, <1>7, <1>9, <2>1 DEF Alive
  <1> QED
    BY <1>8, <1>9

\* Every action keeps the types.
LEMMA TypeStep == ASSUME IInv, [Next]_vars PROVE TypeOK'
  <1>0. TypeOK /\ initproc \in Procs /\ None \notin Procs
    BY ProcAssumption DEF IInv
  <1>1. ASSUME NEW c \in CPUs, NEW p \in Procs, Schedule(c, p) PROVE TypeOK'
    BY <1>0, <1>1 DEF Schedule, TypeOK, States, Pcs, Runs, Goto, table
  <1>2. ASSUME NEW c \in CPUs, SwitchOut(c) PROVE TypeOK'
    BY <1>0, <1>2 DEF SwitchOut, TypeOK, States, Pcs, Runs, Goto, table
  <1>3. ASSUME NEW p \in Procs, Resume(p) PROVE TypeOK'
    BY <1>0, <1>3 DEF Resume, TypeOK, States, Pcs, Runs, Goto, table
  <1>4. ASSUME NEW p \in Procs, Awake(p) PROVE TypeOK'
    BY <1>0, <1>4 DEF Awake, TypeOK, States, Pcs, Runs, Goto, table
  <1>5. ASSUME NEW p \in Procs, NEW l \in Pcs, Move(p, l) PROVE TypeOK'
    BY <1>0, <1>5 DEF Move, TypeOK, States, Pcs, Runs, Goto, table
  <1>6. ASSUME NEW p \in Procs, NEW l \in Pcs, NEW r \in Pcs, Yields(p, l, r) PROVE TypeOK'
    BY <1>0, <1>6 DEF Yields, YieldFrom, TypeOK, States, Pcs, Runs, Goto, table
  <1>7. ASSUME NEW p \in Procs, NEW np \in Procs, ForkAlloc(p, np) PROVE TypeOK'
    BY <1>0, <1>7 DEF ForkAlloc, TypeOK, States, Pcs, Runs, Goto, table
  <1>8. ASSUME NEW p \in Procs, ForkParent(p) PROVE TypeOK'
    BY <1>0, <1>8 DEF ForkParent, TypeOK, States, Pcs, Runs, Goto, table
  <1>9. ASSUME NEW p \in Procs, ForkRun(p) PROVE TypeOK'
    BY <1>0, <1>9 DEF ForkRun, TypeOK, States, Pcs, Runs, Goto, table
  <1>10. ASSUME NEW p \in Procs, NEW q \in Victims, Kill(p, q) PROVE TypeOK'
    BY <1>0, <1>10 DEF Kill, TypeOK, States, Pcs, Runs, Goto, table
  <1>11. ASSUME NEW p \in Procs, ExitLock(p) PROVE TypeOK'
    BY <1>0, <1>11 DEF ExitLock, TypeOK, States, Pcs, Runs, Goto, table
  <1>12. ASSUME NEW p \in Procs, NEW q \in Procs, Adopts(p, q) PROVE TypeOK'
    BY <1>0, <1>12 DEF Adopts, Wakeup, CanWakeup, TypeOK, States, Pcs, Runs, Goto, table
  <1>13. ASSUME NEW p \in Procs, WakeParent(p) PROVE TypeOK'
    BY <1>0, <1>13 DEF WakeParent, Wakeup, CanWakeup, Children, TypeOK, States, Pcs,
       Runs, Goto, table
  <1>14. ASSUME NEW p \in Procs, Zombie(p) PROVE TypeOK'
    BY <1>0, <1>14 DEF Zombie, TypeOK, States, Pcs, Runs, Goto, table
  <1>15. ASSUME NEW p \in Procs, WaitLock(p) PROVE TypeOK'
    BY <1>0, <1>15 DEF WaitLock, TypeOK, States, Pcs, Runs, Goto, table
  <1>16. ASSUME NEW p \in Procs, NEW q \in Procs, Reap(p, q) PROVE TypeOK'
    BY <1>0, <1>16 DEF Reap, Children, TypeOK, States, Pcs, Runs, Goto, table
  <1>17. ASSUME NEW p \in Procs, NEW q \in Procs, ReapFault(p, q) PROVE TypeOK'
    BY <1>0, <1>17 DEF ReapFault, TypeOK, States, Pcs, Runs, Goto, table
  <1>18. ASSUME NEW p \in Procs, NoZombie(p) PROVE TypeOK'
    BY <1>0, <1>18 DEF NoZombie, Children, TypeOK, States, Pcs, Runs, Goto, table
  <1>19. ASSUME NEW p \in Procs, Sleep(p) PROVE TypeOK'
    BY <1>0, <1>19 DEF Sleep, TypeOK, States, Pcs, Runs, Goto, table
  <1>20. CASE UNCHANGED vars
    BY <1>0, <1>20 DEF vars, TypeOK, States, Pcs, Runs, Goto, table
  <1> QED
    BY <1>1, <1>2, <1>3, <1>4, <1>5, <1>6, <1>7, <1>8, <1>9, <1>10, <1>11, <1>12, <1>13,
       <1>14, <1>15, <1>16, <1>17, <1>18, <1>19, <1>20, NextCases

\* Every action keeps state and place of a thread together.
LEMMA PlacesStep == ASSUME IInv, [Next]_vars PROVE Places'
  <1>0. TypeOK /\ Places /\ initproc \in Procs /\ None \notin Procs
    BY ProcAssumption DEF IInv
  <1>1. ASSUME NEW c \in CPUs, NEW p \in Procs, Schedule(c, p) PROVE Places'
    BY <1>0, <1>1 DEF Schedule, TypeOK, Places, Runs, Goto, table
  <1>2. ASSUME NEW c \in CPUs, SwitchOut(c) PROVE Places'
    BY <1>0, <1>2 DEF SwitchOut, TypeOK, Places, Runs, Goto, table
  <1>3. ASSUME NEW p \in Procs, Resume(p) PROVE Places'
    BY <1>0, <1>3 DEF Resume, TypeOK, Places, Runs, Goto, table
  <1>4. ASSUME NEW p \in Procs, Awake(p) PROVE Places'
    BY <1>0, <1>4 DEF Awake, TypeOK, Places, Runs, Goto, table
  <1>5. ASSUME NEW p \in Procs, NEW l \in Pcs, Move(p, l) PROVE Places'
    BY <1>0, <1>5 DEF Move, TypeOK, Places, Runs, Goto, table
  <1>6. ASSUME NEW p \in Procs, NEW l \in Pcs, NEW r \in Pcs, Yields(p, l, r) PROVE Places'
    BY <1>0, <1>6 DEF Yields, YieldFrom, TypeOK, Places, Runs, Goto, table
  <1>7. ASSUME NEW p \in Procs, NEW np \in Procs, ForkAlloc(p, np) PROVE Places'
    BY <1>0, <1>7 DEF ForkAlloc, TypeOK, Places, Runs, Goto, table
  <1>8. ASSUME NEW p \in Procs, ForkParent(p) PROVE Places'
    BY <1>0, <1>8 DEF ForkParent, TypeOK, Places, Runs, Goto, table
  <1>9. ASSUME NEW p \in Procs, ForkRun(p) PROVE Places'
    <2>1. pc[p] \in ForkPcs
      BY <1>9 DEF ForkRun, ForkParent, Runs, ForkPcs
    <2>2. /\ child[p] \in Procs /\ state[child[p]] = "USED" /\ pc[child[p]] = "none"
          /\ child[p] # p /\ child[p] # initproc /\ ret[child[p]] = "user"
          /\ pc[p] = "fork acquire" => parent[child[p]] = None
          /\ pc[p] = "fork run" => parent[child[p]] = p
      BY <2>1, ForkSlot
    <2> QED
      BY <1>0, <1>9, <2>2 DEF ForkRun, TypeOK, Places, Runs, Goto, table
  <1>10. ASSUME NEW p \in Procs, NEW q \in Victims, Kill(p, q) PROVE Places'
    BY <1>0, <1>10 DEF Kill, TypeOK, Places, Runs, Goto, table
  <1>11. ASSUME NEW p \in Procs, ExitLock(p) PROVE Places'
    BY <1>0, <1>11 DEF ExitLock, TypeOK, Places, Runs, Goto, table
  <1>12. ASSUME NEW p \in Procs, NEW q \in Procs, Adopts(p, q) PROVE Places'
    BY <1>0, <1>12 DEF Adopts, Wakeup, CanWakeup, TypeOK, Places, Runs, Goto, table
  <1>13. ASSUME NEW p \in Procs, WakeParent(p) PROVE Places'
    BY <1>0, <1>13 DEF WakeParent, Wakeup, CanWakeup, Children, TypeOK, Places, Runs,
       Goto, table
  <1>14. ASSUME NEW p \in Procs, Zombie(p) PROVE Places'
    BY <1>0, <1>14 DEF Zombie, TypeOK, Places, Runs, Goto, table
  <1>15. ASSUME NEW p \in Procs, WaitLock(p) PROVE Places'
    BY <1>0, <1>15 DEF WaitLock, TypeOK, Places, Runs, Goto, table
  <1>16. ASSUME NEW p \in Procs, NEW q \in Procs, Reap(p, q) PROVE Places'
    BY <1>0, <1>16 DEF Reap, Children, TypeOK, Places, Runs, Goto, table
  <1>17. ASSUME NEW p \in Procs, NEW q \in Procs, ReapFault(p, q) PROVE Places'
    BY <1>0, <1>17 DEF ReapFault, TypeOK, Places, Runs, Goto, table
  <1>18. ASSUME NEW p \in Procs, NoZombie(p) PROVE Places'
    <2>1. state' = state /\ chan' = chan /\ plock' = plock /\ ret' = ret /\ state[p] = "RUNNING"
      BY <1>18 DEF NoZombie, Runs, table
    <2>2. PICK l \in {"user", "sleep"} : pc' = [pc EXCEPT ![p] = l]
      BY <1>18 DEF NoZombie, Goto
    <2>3. pc[p] = "scan"
      BY <1>18 DEF NoZombie, Runs
    <2> QED
      BY <1>0, <2>1, <2>2, <2>3 DEF TypeOK, Places
  <1>19. ASSUME NEW p \in Procs, Sleep(p) PROVE Places'
    BY <1>0, <1>19 DEF Sleep, TypeOK, Places, Runs, Goto, table
  <1>20. CASE UNCHANGED vars
    BY <1>0, <1>20 DEF vars, TypeOK, Places, Runs, Goto, table
  <1> QED
    BY <1>1, <1>2, <1>3, <1>4, <1>5, <1>6, <1>7, <1>8, <1>9, <1>10, <1>11, <1>12, <1>13,
       <1>14, <1>15, <1>16, <1>17, <1>18, <1>19, <1>20, NextCases

\* A stack is given to a CPU when no other has it.
LEMMA StacksStep == ASSUME IInv, [Next]_vars PROVE Stacks'
  <1>0. TypeOK /\ Stacks /\ initproc \in Procs /\ None \notin Procs
    BY ProcAssumption DEF IInv
  <1>1. ASSUME NEW c \in CPUs, NEW p \in Procs, Schedule(c, p) PROVE Stacks'
    <2>1. cpu[c] = None /\ \A d \in CPUs : cpu[d] # p
      BY <1>0, <1>1 DEF Schedule, Stacks, OneCpuPerProc, OnCpu
    <2>2. /\ cpu' = [cpu EXCEPT ![c] = p] /\ state' = [state EXCEPT ![p] = "RUNNING"]
          /\ plock' = [plock EXCEPT ![p] = TRUE]
      BY <1>1 DEF Schedule
    <2> QED
      BY <1>0, <2>1, <2>2 DEF TypeOK, Stacks, OneCpuPerProc, OnCpu
  <1>2. ASSUME NEW c \in CPUs, SwitchOut(c) PROVE Stacks'
    BY <1>0, <1>2 DEF SwitchOut, TypeOK, Stacks, OneCpuPerProc, OnCpu, Runs, Goto, table
  <1>3. ASSUME NEW p \in Procs, Resume(p) PROVE Stacks'
    BY <1>0, <1>3 DEF Resume, TypeOK, Stacks, OneCpuPerProc, OnCpu, Runs, Goto, table
  <1>4. ASSUME NEW p \in Procs, Awake(p) PROVE Stacks'
    BY <1>0, <1>4 DEF Awake, TypeOK, Stacks, OneCpuPerProc, OnCpu, Runs, Goto, table
  <1>5. ASSUME NEW p \in Procs, NEW l \in Pcs, Move(p, l) PROVE Stacks'
    BY <1>0, <1>5 DEF Move, TypeOK, Stacks, OneCpuPerProc, OnCpu, Runs, Goto, table
  <1>6. ASSUME NEW p \in Procs, NEW l \in Pcs, NEW r \in Pcs, Yields(p, l, r) PROVE Stacks'
    BY <1>0, <1>6 DEF Yields, YieldFrom, TypeOK, Stacks, OneCpuPerProc, OnCpu, Runs,
       Goto, table
  <1>7. ASSUME NEW p \in Procs, NEW np \in Procs, ForkAlloc(p, np) PROVE Stacks'
    BY <1>0, <1>7 DEF ForkAlloc, TypeOK, Stacks, OneCpuPerProc, OnCpu, Runs, Goto, table
  <1>8. ASSUME NEW p \in Procs, ForkParent(p) PROVE Stacks'
    BY <1>0, <1>8 DEF ForkParent, TypeOK, Stacks, OneCpuPerProc, OnCpu, Runs, Goto,
       table
  <1>9. ASSUME NEW p \in Procs, ForkRun(p) PROVE Stacks'
    <2>1. pc[p] \in ForkPcs
      BY <1>9 DEF ForkRun, ForkParent, Runs, ForkPcs
    <2>2. /\ child[p] \in Procs /\ state[child[p]] = "USED" /\ pc[child[p]] = "none"
          /\ child[p] # p /\ child[p] # initproc /\ ret[child[p]] = "user"
          /\ pc[p] = "fork acquire" => parent[child[p]] = None
          /\ pc[p] = "fork run" => parent[child[p]] = p
      BY <2>1, ForkSlot
    <2> QED
      BY <1>0, <1>9, <2>2 DEF ForkRun, TypeOK, Stacks, OneCpuPerProc, OnCpu, Runs, Goto,
         table
  <1>10. ASSUME NEW p \in Procs, NEW q \in Victims, Kill(p, q) PROVE Stacks'
    BY <1>0, <1>10 DEF Kill, TypeOK, Stacks, OneCpuPerProc, OnCpu, Runs, Goto, table
  <1>11. ASSUME NEW p \in Procs, ExitLock(p) PROVE Stacks'
    BY <1>0, <1>11 DEF ExitLock, TypeOK, Stacks, OneCpuPerProc, OnCpu, Runs, Goto, table
  <1>12. ASSUME NEW p \in Procs, NEW q \in Procs, Adopts(p, q) PROVE Stacks'
    BY <1>0, <1>12 DEF Adopts, Wakeup, CanWakeup, TypeOK, Stacks, OneCpuPerProc, OnCpu,
       Runs, Goto, table
  <1>13. ASSUME NEW p \in Procs, WakeParent(p) PROVE Stacks'
    BY <1>0, <1>13 DEF WakeParent, Wakeup, CanWakeup, Children, TypeOK, Stacks,
       OneCpuPerProc, OnCpu, Runs, Goto, table
  <1>14. ASSUME NEW p \in Procs, Zombie(p) PROVE Stacks'
    BY <1>0, <1>14 DEF Zombie, TypeOK, Stacks, OneCpuPerProc, OnCpu, Runs, Goto, table
  <1>15. ASSUME NEW p \in Procs, WaitLock(p) PROVE Stacks'
    BY <1>0, <1>15 DEF WaitLock, TypeOK, Stacks, OneCpuPerProc, OnCpu, Runs, Goto, table
  <1>16. ASSUME NEW p \in Procs, NEW q \in Procs, Reap(p, q) PROVE Stacks'
    BY <1>0, <1>16 DEF Reap, Children, TypeOK, Stacks, OneCpuPerProc, OnCpu, Runs, Goto,
       table
  <1>17. ASSUME NEW p \in Procs, NEW q \in Procs, ReapFault(p, q) PROVE Stacks'
    BY <1>0, <1>17 DEF ReapFault, TypeOK, Stacks, OneCpuPerProc, OnCpu, Runs, Goto,
       table
  <1>18. ASSUME NEW p \in Procs, NoZombie(p) PROVE Stacks'
    BY <1>0, <1>18 DEF NoZombie, Children, TypeOK, Stacks, OneCpuPerProc, OnCpu, Runs,
       Goto, table
  <1>19. ASSUME NEW p \in Procs, Sleep(p) PROVE Stacks'
    BY <1>0, <1>19 DEF Sleep, TypeOK, Stacks, OneCpuPerProc, OnCpu, Runs, Goto, table
  <1>20. CASE UNCHANGED vars
    BY <1>0, <1>20 DEF vars, TypeOK, Stacks, OneCpuPerProc, OnCpu, Runs, Goto, table
  <1> QED
    BY <1>1, <1>2, <1>3, <1>4, <1>5, <1>6, <1>7, <1>8, <1>9, <1>10, <1>11, <1>12, <1>13,
       <1>14, <1>15, <1>16, <1>17, <1>18, <1>19, <1>20, NextCases

\* wait_lock is taken and given back together with the place of the thread.
LEMMA LockedStep == ASSUME IInv, [Next]_vars PROVE Locked'
  <1>0. TypeOK /\ Places /\ Locked /\ initproc \in Procs /\ None \notin Procs
    BY ProcAssumption DEF IInv
  <1>1. ASSUME NEW c \in CPUs, NEW p \in Procs, Schedule(c, p) PROVE Locked'
    BY <1>0, <1>1 DEF Schedule, TypeOK, Places, Locked, WaitLockPcs, Runs, Goto, table
  <1>2. ASSUME NEW c \in CPUs, SwitchOut(c) PROVE Locked'
    BY <1>0, <1>2 DEF SwitchOut, TypeOK, Places, Locked, WaitLockPcs, Runs, Goto, table
  <1>3. ASSUME NEW p \in Procs, Resume(p) PROVE Locked'
    BY <1>0, <1>3 DEF Resume, TypeOK, Places, Locked, WaitLockPcs, Runs, Goto, table
  <1>4. ASSUME NEW p \in Procs, Awake(p) PROVE Locked'
    BY <1>0, <1>4 DEF Awake, TypeOK, Places, Locked, WaitLockPcs, Runs, Goto, table
  <1>5. ASSUME NEW p \in Procs, NEW l \in Pcs, Move(p, l) PROVE Locked'
    BY <1>0, <1>5 DEF Move, TypeOK, Places, Locked, WaitLockPcs, Runs, Goto, table
  <1>6. ASSUME NEW p \in Procs, NEW l \in Pcs, NEW r \in Pcs, Yields(p, l, r) PROVE Locked'
    BY <1>0, <1>6 DEF Yields, YieldFrom, TypeOK, Places, Locked, WaitLockPcs, Runs,
       Goto, table
  <1>7. ASSUME NEW p \in Procs, NEW np \in Procs, ForkAlloc(p, np) PROVE Locked'
    BY <1>0, <1>7 DEF ForkAlloc, TypeOK, Places, Locked, WaitLockPcs, Runs, Goto, table
  <1>8. ASSUME NEW p \in Procs, ForkParent(p) PROVE Locked'
    BY <1>0, <1>8 DEF ForkParent, TypeOK, Places, Locked, WaitLockPcs, Runs, Goto, table
  <1>9. ASSUME NEW p \in Procs, ForkRun(p) PROVE Locked'
    <2>1. pc[p] \in ForkPcs
      BY <1>9 DEF ForkRun, ForkParent, Runs, ForkPcs
    <2>2. /\ child[p] \in Procs /\ state[child[p]] = "USED" /\ pc[child[p]] = "none"
          /\ child[p] # p /\ child[p] # initproc /\ ret[child[p]] = "user"
          /\ pc[p] = "fork acquire" => parent[child[p]] = None
          /\ pc[p] = "fork run" => parent[child[p]] = p
      BY <2>1, ForkSlot
    <2> QED
      BY <1>0, <1>9, <2>2 DEF ForkRun, TypeOK, Places, Locked, WaitLockPcs, Runs, Goto,
         table
  <1>10. ASSUME NEW p \in Procs, NEW q \in Victims, Kill(p, q) PROVE Locked'
    BY <1>0, <1>10 DEF Kill, TypeOK, Places, Locked, WaitLockPcs, Runs, Goto, table
  <1>11. ASSUME NEW p \in Procs, ExitLock(p) PROVE Locked'
    BY <1>0, <1>11 DEF ExitLock, TypeOK, Places, Locked, WaitLockPcs, Runs, Goto, table
  <1>12. ASSUME NEW p \in Procs, NEW q \in Procs, Adopts(p, q) PROVE Locked'
    BY <1>0, <1>12 DEF Adopts, Wakeup, CanWakeup, TypeOK, Places, Locked, WaitLockPcs,
       Runs, Goto, table
  <1>13. ASSUME NEW p \in Procs, WakeParent(p) PROVE Locked'
    BY <1>0, <1>13 DEF WakeParent, Wakeup, CanWakeup, Children, TypeOK, Places, Locked,
       WaitLockPcs, Runs, Goto, table
  <1>14. ASSUME NEW p \in Procs, Zombie(p) PROVE Locked'
    BY <1>0, <1>14 DEF Zombie, TypeOK, Places, Locked, WaitLockPcs, Runs, Goto, table
  <1>15. ASSUME NEW p \in Procs, WaitLock(p) PROVE Locked'
    BY <1>0, <1>15 DEF WaitLock, TypeOK, Places, Locked, WaitLockPcs, Runs, Goto, table
  <1>16. ASSUME NEW p \in Procs, NEW q \in Procs, Reap(p, q) PROVE Locked'
    BY <1>0, <1>16 DEF Reap, Children, TypeOK, Places, Locked, WaitLockPcs, Runs, Goto,
       table
  <1>17. ASSUME NEW p \in Procs, NEW q \in Procs, ReapFault(p, q) PROVE Locked'
    BY <1>0, <1>17 DEF ReapFault, TypeOK, Places, Locked, WaitLockPcs, Runs, Goto, table
  <1>18. ASSUME NEW p \in Procs, NoZombie(p) PROVE Locked'
    <2>1. CASE wait_lock' = None /\ Goto(p, "user")
      BY <1>0, <1>18, <2>1 DEF NoZombie, TypeOK, Locked, WaitLockPcs, Runs, Goto
    <2>2. CASE wait_lock' = wait_lock /\ Goto(p, "sleep")
      BY <1>0, <1>18, <2>2 DEF NoZombie, TypeOK, Locked, WaitLockPcs, Runs, Goto
    <2> QED
      BY <1>18, <2>1, <2>2 DEF NoZombie
  <1>19. ASSUME NEW p \in Procs, Sleep(p) PROVE Locked'
    BY <1>0, <1>19 DEF Sleep, TypeOK, Places, Locked, WaitLockPcs, Runs, Goto, table
  <1>20. CASE UNCHANGED vars
    BY <1>0, <1>20 DEF vars, TypeOK, Places, Locked, WaitLockPcs, Runs, Goto, table
  <1> QED
    BY <1>1, <1>2, <1>3, <1>4, <1>5, <1>6, <1>7, <1>8, <1>9, <1>10, <1>11, <1>12, <1>13,
       <1>14, <1>15, <1>16, <1>17, <1>18, <1>19, <1>20, NextCases

\* init is never killed and never exits.
LEMMA InitStep == ASSUME IInv, [Next]_vars PROVE InitLives'
  <1>0. TypeOK /\ InitLives /\ initproc \in Procs /\ None \notin Procs
    BY ProcAssumption DEF IInv
  <1>1. ASSUME NEW c \in CPUs, NEW p \in Procs, Schedule(c, p) PROVE InitLives'
    BY <1>0, <1>1 DEF Schedule, TypeOK, InitLives, Where, ExitPcs, Alive, Runs, Goto,
       table
  <1>2. ASSUME NEW c \in CPUs, SwitchOut(c) PROVE InitLives'
    BY <1>0, <1>2 DEF SwitchOut, TypeOK, InitLives, Where, ExitPcs, Alive, Runs, Goto,
       table
  <1>3. ASSUME NEW p \in Procs, Resume(p) PROVE InitLives'
    BY <1>0, <1>3 DEF Resume, TypeOK, InitLives, Where, ExitPcs, Alive, Runs, Goto,
       table
  <1>4. ASSUME NEW p \in Procs, Awake(p) PROVE InitLives'
    BY <1>0, <1>4 DEF Awake, TypeOK, InitLives, Where, ExitPcs, Alive, Runs, Goto, table
  <1>5. ASSUME NEW p \in Procs, NEW l \in Pcs, Move(p, l) PROVE InitLives'
    <2>1. state' = state /\ parent' = parent /\ killed' = killed /\ ret' = ret
      BY <1>5 DEF Move, table
    <2>2. pc' = [pc EXCEPT ![p] = l] /\ pc[p] # "yielded" /\ l # "yielded"
      BY <1>5 DEF Move, Goto
    <2>3. pc[initproc] # "exit"
      BY InitPlace DEF ExitPcs
    <2>4. killed[initproc] # 1
      BY <1>0 DEF InitLives
    <2>5. p = initproc => l \notin ExitPcs
      BY <1>5, <2>3, <2>4 DEF Move, ExitPcs
    <2> QED
      BY <1>0, <2>1, <2>2, <2>5 DEF TypeOK, InitLives, Where
  <1>6. ASSUME NEW p \in Procs, NEW l \in Pcs, NEW r \in Pcs, Yields(p, l, r) PROVE InitLives'
    BY <1>0, <1>6 DEF Yields, YieldFrom, TypeOK, InitLives, Where, ExitPcs, Alive, Runs,
       Goto, table
  <1>7. ASSUME NEW p \in Procs, NEW np \in Procs, ForkAlloc(p, np) PROVE InitLives'
    BY <1>0, <1>7 DEF ForkAlloc, TypeOK, InitLives, Where, ExitPcs, Alive, Runs, Goto,
       table
  <1>8. ASSUME NEW p \in Procs, ForkParent(p) PROVE InitLives'
    <2>1. pc[p] \in ForkPcs
      BY <1>8 DEF ForkRun, ForkParent, Runs, ForkPcs
    <2>2. /\ child[p] \in Procs /\ state[child[p]] = "USED" /\ pc[child[p]] = "none"
          /\ child[p] # p /\ child[p] # initproc /\ ret[child[p]] = "user"
          /\ pc[p] = "fork acquire" => parent[child[p]] = None
          /\ pc[p] = "fork run" => parent[child[p]] = p
      BY <2>1, ForkSlot
    <2> QED
      BY <1>0, <1>8, <2>2 DEF ForkParent, TypeOK, InitLives, Where, ExitPcs, Alive,
         Runs, Goto, table
  <1>9. ASSUME NEW p \in Procs, ForkRun(p) PROVE InitLives'
    <2>1. pc[p] \in ForkPcs
      BY <1>9 DEF ForkRun, ForkParent, Runs, ForkPcs
    <2>2. /\ child[p] \in Procs /\ state[child[p]] = "USED" /\ pc[child[p]] = "none"
          /\ child[p] # p /\ child[p] # initproc /\ ret[child[p]] = "user"
          /\ pc[p] = "fork acquire" => parent[child[p]] = None
          /\ pc[p] = "fork run" => parent[child[p]] = p
      BY <2>1, ForkSlot
    <2> QED
      BY <1>0, <1>9, <2>2 DEF ForkRun, TypeOK, InitLives, Where, ExitPcs, Alive, Runs,
         Goto, table
  <1>10. ASSUME NEW p \in Procs, NEW q \in Victims, Kill(p, q) PROVE InitLives'
    <2>1. q # initproc /\ q \in Procs
      BY ProcAssumption
    <2> QED
      BY <1>0, <1>10, <2>1 DEF Kill, TypeOK, InitLives, Where, ExitPcs, Alive, Runs,
         Goto, table
  <1>11. ASSUME NEW p \in Procs, ExitLock(p) PROVE InitLives'
    BY <1>0, <1>11 DEF ExitLock, TypeOK, InitLives, Where, ExitPcs, Alive, Runs, Goto,
       table
  <1>12. ASSUME NEW p \in Procs, NEW q \in Procs, Adopts(p, q) PROVE InitLives'
    BY <1>0, <1>12 DEF Adopts, Wakeup, CanWakeup, TypeOK, InitLives, Where, ExitPcs,
       Alive, Runs, Goto, table
  <1>13. ASSUME NEW p \in Procs, WakeParent(p) PROVE InitLives'
    BY <1>0, <1>13 DEF WakeParent, Wakeup, CanWakeup, Children, TypeOK, InitLives,
       Where, ExitPcs, Alive, Runs, Goto, table
  <1>14. ASSUME NEW p \in Procs, Zombie(p) PROVE InitLives'
    BY <1>0, <1>14 DEF Zombie, TypeOK, InitLives, Where, ExitPcs, Alive, Runs, Goto,
       table
  <1>15. ASSUME NEW p \in Procs, WaitLock(p) PROVE InitLives'
    BY <1>0, <1>15 DEF WaitLock, TypeOK, InitLives, Where, ExitPcs, Alive, Runs, Goto,
       table
  <1>16. ASSUME NEW p \in Procs, NEW q \in Procs, Reap(p, q) PROVE InitLives'
    BY <1>0, <1>16 DEF Reap, Children, TypeOK, InitLives, Where, ExitPcs, Alive, Runs,
       Goto, table
  <1>17. ASSUME NEW p \in Procs, NEW q \in Procs, ReapFault(p, q) PROVE InitLives'
    BY <1>0, <1>17 DEF ReapFault, TypeOK, InitLives, Where, ExitPcs, Alive, Runs, Goto,
       table
  <1>18. ASSUME NEW p \in Procs, NoZombie(p) PROVE InitLives'
    BY <1>0, <1>18 DEF NoZombie, Children, TypeOK, InitLives, Where, ExitPcs, Alive,
       Runs, Goto, table
  <1>19. ASSUME NEW p \in Procs, Sleep(p) PROVE InitLives'
    BY <1>0, <1>19 DEF Sleep, TypeOK, InitLives, Where, ExitPcs, Alive, Runs, Goto,
       table
  <1>20. CASE UNCHANGED vars
    BY <1>0, <1>20 DEF vars, TypeOK, InitLives, Where, ExitPcs, Alive, Runs, Goto, table
  <1> QED
    BY <1>1, <1>2, <1>3, <1>4, <1>5, <1>6, <1>7, <1>8, <1>9, <1>10, <1>11, <1>12, <1>13,
       <1>14, <1>15, <1>16, <1>17, <1>18, <1>19, <1>20, NextCases

\* fork's slot is not touched by anyone else.
LEMMA SlotsStep == ASSUME IInv, [Next]_vars PROVE ForkSlots'
  <1>0. TypeOK /\ Forks /\ initproc \in Procs /\ None \notin Procs
    BY ProcAssumption DEF IInv
  <1>1. ASSUME NEW c \in CPUs, NEW p \in Procs, Schedule(c, p) PROVE ForkSlots'
    BY <1>0, <1>1 DEF Schedule, TypeOK, Forks, ForkSlots, Runs, Goto, table
  <1>2. ASSUME NEW c \in CPUs, SwitchOut(c) PROVE ForkSlots'
    BY <1>0, <1>2 DEF SwitchOut, TypeOK, Forks, ForkSlots, Runs, Goto, table
  <1>3. ASSUME NEW p \in Procs, Resume(p) PROVE ForkSlots'
    BY <1>0, <1>3 DEF Resume, TypeOK, Forks, ForkSlots, Runs, Goto, table
  <1>4. ASSUME NEW p \in Procs, Awake(p) PROVE ForkSlots'
    BY <1>0, <1>4 DEF Awake, TypeOK, Forks, ForkSlots, Runs, Goto, table
  <1>5. ASSUME NEW p \in Procs, NEW l \in Pcs, Move(p, l) PROVE ForkSlots'
    BY <1>0, <1>5 DEF Move, TypeOK, Forks, ForkSlots, Runs, Goto, table
  <1>6. ASSUME NEW p \in Procs, NEW l \in Pcs, NEW r \in Pcs, Yields(p, l, r) PROVE ForkSlots'
    BY <1>0, <1>6 DEF Yields, YieldFrom, TypeOK, Forks, ForkSlots, Runs, Goto, table
  <1>7. ASSUME NEW p \in Procs, NEW np \in Procs, ForkAlloc(p, np) PROVE ForkSlots'
    BY <1>0, <1>7 DEF ForkAlloc, TypeOK, Forks, ForkSlots, Runs, Goto, table
  <1>8. ASSUME NEW p \in Procs, ForkParent(p) PROVE ForkSlots'
    <2>1. pc[p] \in ForkPcs
      BY <1>8 DEF ForkRun, ForkParent, Runs, ForkPcs
    <2>2. /\ child[p] \in Procs /\ state[child[p]] = "USED" /\ pc[child[p]] = "none"
          /\ child[p] # p /\ child[p] # initproc /\ ret[child[p]] = "user"
          /\ pc[p] = "fork acquire" => parent[child[p]] = None
          /\ pc[p] = "fork run" => parent[child[p]] = p
      BY <2>1, ForkSlot
    <2> QED
      BY <1>0, <1>8, <2>2 DEF ForkParent, TypeOK, Forks, ForkSlots, Runs, Goto, table
  <1>9. ASSUME NEW p \in Procs, ForkRun(p) PROVE ForkSlots'
    <2>1. pc[p] \in ForkPcs
      BY <1>9 DEF ForkRun, ForkParent, Runs, ForkPcs
    <2>2. /\ child[p] \in Procs /\ state[child[p]] = "USED" /\ pc[child[p]] = "none"
          /\ child[p] # p /\ child[p] # initproc /\ ret[child[p]] = "user"
          /\ pc[p] = "fork acquire" => parent[child[p]] = None
          /\ pc[p] = "fork run" => parent[child[p]] = p
      BY <2>1, ForkSlot
    <2> QED
      BY <1>0, <1>9, <2>2 DEF ForkRun, TypeOK, Forks, ForkSlots, Runs, Goto, table
  <1>10. ASSUME NEW p \in Procs, NEW q \in Victims, Kill(p, q) PROVE ForkSlots'
    BY <1>0, <1>10 DEF Kill, TypeOK, Forks, ForkSlots, Runs, Goto, table
  <1>11. ASSUME NEW p \in Procs, ExitLock(p) PROVE ForkSlots'
    BY <1>0, <1>11 DEF ExitLock, TypeOK, Forks, ForkSlots, Runs, Goto, table
  <1>12. ASSUME NEW p \in Procs, NEW q \in Procs, Adopts(p, q) PROVE ForkSlots'
    BY <1>0, <1>12 DEF Adopts, Wakeup, CanWakeup, TypeOK, Forks, ForkSlots, Runs, Goto,
       table
  <1>13. ASSUME NEW p \in Procs, WakeParent(p) PROVE ForkSlots'
    BY <1>0, <1>13 DEF WakeParent, Wakeup, CanWakeup, Children, TypeOK, Forks,
       ForkSlots, Runs, Goto, table
  <1>14. ASSUME NEW p \in Procs, Zombie(p) PROVE ForkSlots'
    BY <1>0, <1>14 DEF Zombie, TypeOK, Forks, ForkSlots, Runs, Goto, table
  <1>15. ASSUME NEW p \in Procs, WaitLock(p) PROVE ForkSlots'
    BY <1>0, <1>15 DEF WaitLock, TypeOK, Forks, ForkSlots, Runs, Goto, table
  <1>16. ASSUME NEW p \in Procs, NEW q \in Procs, Reap(p, q) PROVE ForkSlots'
    BY <1>0, <1>16 DEF Reap, Children, TypeOK, Forks, ForkSlots, Runs, Goto, table
  <1>17. ASSUME NEW p \in Procs, NEW q \in Procs, ReapFault(p, q) PROVE ForkSlots'
    BY <1>0, <1>17 DEF ReapFault, TypeOK, Forks, ForkSlots, Runs, Goto, table
  <1>18. ASSUME NEW p \in Procs, NoZombie(p) PROVE ForkSlots'
    BY <1>0, <1>18 DEF NoZombie, Children, TypeOK, Forks, ForkSlots, Runs, Goto, table
  <1>19. ASSUME NEW p \in Procs, Sleep(p) PROVE ForkSlots'
    BY <1>0, <1>19 DEF Sleep, TypeOK, Forks, ForkSlots, Runs, Goto, table
  <1>20. CASE UNCHANGED vars
    BY <1>0, <1>20 DEF vars, TypeOK, Forks, ForkSlots, Runs, Goto, table
  <1> QED
    BY <1>1, <1>2, <1>3, <1>4, <1>5, <1>6, <1>7, <1>8, <1>9, <1>10, <1>11, <1>12, <1>13,
       <1>14, <1>15, <1>16, <1>17, <1>18, <1>19, <1>20, NextCases

\* fork's steps are done in order.
LEMMA PlacesOfForkStep == ASSUME IInv, [Next]_vars PROVE ForkPlaces'
  <1>0. TypeOK /\ Places /\ Forks /\ initproc \in Procs /\ None \notin Procs
    BY ProcAssumption DEF IInv
  <1>1. ASSUME NEW c \in CPUs, NEW p \in Procs, Schedule(c, p) PROVE ForkPlaces'
    <2>1. /\ \A r \in Procs : r # p => Where(r)' = Where(r)
          /\ Where(p)' = Where(p)
      BY <1>0, <1>1 DEF Schedule, TypeOK, Runs, Goto, Where
    <2>2. child' = child /\ parent' = parent
      BY <1>1 DEF Schedule, table
    <2> QED
      BY <1>0, <2>1, <2>2 DEF Forks, ForkPlaces, ForkPcs
  <1>2. ASSUME NEW c \in CPUs, SwitchOut(c) PROVE ForkPlaces'
    BY <1>0, <1>2 DEF SwitchOut, TypeOK, Forks, ForkPlaces, Where, ForkPcs, Runs, Goto,
       table
  <1>3. ASSUME NEW p \in Procs, Resume(p) PROVE ForkPlaces'
    <2>1. /\ \A r \in Procs : r # p => Where(r)' = Where(r)
          /\ Where(p)' = Where(p)
      BY <1>0, <1>3 DEF Resume, TypeOK, Runs, Goto, Where, Places
    <2>2. child' = child /\ parent' = parent
      BY <1>3 DEF Resume, table
    <2> QED
      BY <1>0, <2>1, <2>2 DEF Forks, ForkPlaces, ForkPcs
  <1>4. ASSUME NEW p \in Procs, Awake(p) PROVE ForkPlaces'
    <2>1. /\ \A r \in Procs : r # p => Where(r)' = Where(r)
          /\ Where(p) = "slept" /\ Where(p)' = "relock"
      BY <1>0, <1>4 DEF Awake, TypeOK, Runs, Goto, Where
    <2>2. child' = child /\ parent' = parent
      BY <1>4 DEF Awake, table
    <2> QED
      BY <1>0, <2>1, <2>2 DEF Forks, ForkPlaces, ForkPcs
  <1>5. ASSUME NEW p \in Procs, NEW l \in Pcs, Move(p, l) PROVE ForkPlaces'
    <2>1. /\ \A r \in Procs : r # p => Where(r)' = Where(r)
          /\ Where(p) = pc[p] /\ Where(p)' = l /\ {pc[p], l} \cap {"fork run"} = {}
          /\ (l = "fork acquire" <=> pc[p] = "fork parent")
          /\ l # "fork parent" /\ pc[p] # "fork acquire"
      BY <1>0, <1>5 DEF Move, TypeOK, Runs, Goto, Where
    <2>2. child' = child /\ parent' = parent
      BY <1>5 DEF Move, table
    <2> QED
      BY <1>0, <2>1, <2>2 DEF Forks, ForkPlaces, ForkPcs
  <1>6. ASSUME NEW p \in Procs, NEW l \in Pcs, NEW r \in Pcs, Yields(p, l, r) PROVE ForkPlaces'
    <2>1. /\ \A q \in Procs : q # p => Where(q)' = Where(q)
          /\ Where(p) = l /\ Where(p)' = r /\ (r = l \/ {l, r} \cap ForkPcs = {})
      BY <1>0, <1>6 DEF Yields, YieldFrom, TypeOK, Runs, Goto, Where, ForkPcs
    <2>2. child' = child /\ parent' = parent
      BY <1>6 DEF Yields, YieldFrom, table
    <2> QED
      BY <1>0, <2>1, <2>2 DEF Forks, ForkPlaces, ForkPcs
  <1>7. ASSUME NEW p \in Procs, NEW np \in Procs, ForkAlloc(p, np) PROVE ForkPlaces'
    <2>1. /\ \A r \in Procs : r # p => Where(r)' = Where(r)
          /\ Where(p)' = "fork parent"
      BY <1>0, <1>7 DEF ForkAlloc, TypeOK, Runs, Goto, Where
    <2>2. child' = [child EXCEPT ![p] = np] /\ parent' = parent
      BY <1>7 DEF ForkAlloc
    <2>3. parent[np] = None
      BY <1>7 DEF ForkAlloc, IInv, Family
    <2> QED
      BY <1>0, <2>1, <2>2, <2>3 DEF TypeOK, Forks, ForkPlaces, ForkPcs
  <1>8. ASSUME NEW p \in Procs, ForkParent(p) PROVE ForkPlaces'
    <2>1. /\ \A r \in Procs : r # p => Where(r)' = Where(r)
          /\ Where(p) = "fork acquire" /\ Where(p)' = "fork run"
      BY <1>0, <1>8 DEF ForkParent, TypeOK, Runs, Goto, Where
    <2>2. child' = child /\ parent' = [parent EXCEPT ![child[p]] = p]
      BY <1>8 DEF ForkParent
    <2>3. child[p] \in Procs
      BY <1>0, <2>1 DEF TypeOK, Forks, ForkPlaces, ForkPcs
    <2>4. \A r \in Procs : r # p => child[r] # child[p]
      BY <1>0, <2>3 DEF Forks, ForkSlots
    <2>5. \A r \in Procs : r # p /\ child[r] # None => parent'[child[r]] = parent[child[r]]
      BY <1>0, <2>2, <2>3, <2>4 DEF TypeOK
    <2>6. parent'[child[p]] = p
      BY <1>0, <2>2, <2>3 DEF TypeOK
    <2> QED
      BY <1>0, <2>1, <2>2, <2>3, <2>5, <2>6 DEF Forks, ForkPlaces, ForkPcs
  <1>9. ASSUME NEW p \in Procs, ForkRun(p) PROVE ForkPlaces'
    <2>0. pc[p] \in ForkPcs
      BY <1>9 DEF ForkRun, Runs, ForkPcs
    <2>1. PICK np \in Procs :
             np = child[p] /\ pc[np] = "none" /\ ret[np] = "user" /\ np # p
      BY <2>0, ForkSlot
    <2>2. /\ pc'[p] = "user" /\ pc'[np] = "yielded" /\ ret' = ret
          /\ \A r \in Procs : r \notin {p, np} => pc'[r] = pc[r]
      BY <1>0, <1>9, <2>1 DEF ForkRun, TypeOK
    <2>3. /\ \A r \in Procs : r \notin {p, np} => Where(r)' = Where(r)
          /\ Where(p)' = "user" /\ Where(np)' = "user" /\ Where(np) = "none"
      BY <2>1, <2>2 DEF Where
    <2>4. parent' = parent /\ child'[p] = None /\ \A r \in Procs : r # p => child'[r] = child[r]
      BY <1>0, <1>9 DEF ForkRun, TypeOK
    <2>5. child[np] = None
      BY <1>0, <2>1, <2>3 DEF Forks, ForkPlaces, ForkPcs
    <2>6. child'[np] = None
      BY <2>1, <2>4, <2>5
    <2>7. SUFFICES ASSUME NEW r \in Procs
                   PROVE  /\ Where(r)' \in ForkPcs <=> child'[r] # None
                          /\ Where(r)' \in {"fork parent", "fork acquire"} => parent'[child'[r]] = None
                          /\ Where(r)' = "fork run" => parent'[child'[r]] = r
      BY DEF ForkPlaces
    <2>8. CASE r \in {p, np}
      BY <2>3, <2>4, <2>6, <2>8 DEF ForkPcs
    <2>9. CASE r \notin {p, np}
      <3>1. Where(r)' = Where(r) /\ child'[r] = child[r] /\ parent' = parent
        BY <2>3, <2>4, <2>9
      <3> QED
        BY <1>0, <3>1 DEF Forks, ForkPlaces
    <2> QED
      BY <2>8, <2>9
  <1>10. ASSUME NEW p \in Procs, NEW q \in Victims, Kill(p, q) PROVE ForkPlaces'
    <2>1. /\ \A r \in Procs : r # p => Where(r)' = Where(r)
          /\ Where(p) = "kernel" /\ Where(p)' = "user"
      BY <1>0, <1>10 DEF Kill, TypeOK, Runs, Goto, Where
    <2>2. child' = child /\ parent' = parent
      BY <1>10 DEF Kill, table
    <2> QED
      BY <1>0, <2>1, <2>2 DEF Forks, ForkPlaces, ForkPcs
  <1>11. ASSUME NEW p \in Procs, ExitLock(p) PROVE ForkPlaces'
    <2>1. /\ \A r \in Procs : r # p => Where(r)' = Where(r)
          /\ Where(p) = "exit acquire" /\ Where(p)' = "reparent"
      BY <1>0, <1>11 DEF ExitLock, TypeOK, Runs, Goto, Where
    <2>2. child' = child /\ parent' = parent
      BY <1>11 DEF ExitLock, table
    <2> QED
      BY <1>0, <2>1, <2>2 DEF Forks, ForkPlaces, ForkPcs
  <1>12. ASSUME NEW p \in Procs, NEW q \in Procs, Adopts(p, q) PROVE ForkPlaces'
    <2>1. /\ pc[p] = "reparent" /\ parent[q] = p /\ p # initproc
          /\ parent' = [parent EXCEPT ![q] = initproc]
          /\ pc' = pc /\ ret' = ret /\ child' = child
      BY <1>12, AdoptsEffect
    <2>2. Where(p) = "reparent" /\ \A r \in Procs : Where(r)' = Where(r)
      BY <2>1 DEF Where
    <2>3. \A r \in Procs : child[r] # None => parent[child[r]] \in {None, r} /\ r # p
      BY <1>0, <2>2 DEF Forks, ForkPlaces, ForkPcs
    <2>4. \A r \in Procs : child[r] # None => parent'[child[r]] = parent[child[r]]
      BY <1>0, <2>1, <2>3 DEF TypeOK
    <2> QED
      BY <1>0, <2>1, <2>2, <2>4 DEF Forks, ForkPlaces, ForkPcs
  <1>13. ASSUME NEW p \in Procs, WakeParent(p) PROVE ForkPlaces'
    <2>1. pc' = [pc EXCEPT ![p] = "zombie"] /\ ret' = ret /\ child' = child /\ parent' = parent
          /\ pc[p] = "reparent"
      BY <1>13, WakeParentEffect
    <2>2. /\ \A r \in Procs : r # p => Where(r)' = Where(r)
          /\ Where(p) = "reparent" /\ Where(p)' = "zombie"
      BY <1>0, <2>1 DEF TypeOK, Where
    <2> QED
      BY <1>0, <2>1, <2>2 DEF Forks, ForkPlaces, ForkPcs
  <1>14. ASSUME NEW p \in Procs, Zombie(p) PROVE ForkPlaces'
    <2>1. /\ \A r \in Procs : r # p => Where(r)' = Where(r)
          /\ Where(p) = "zombie" /\ Where(p)' = "none"
      BY <1>0, <1>14 DEF Zombie, TypeOK, Runs, Goto, Where
    <2>2. child' = child /\ parent' = parent
      BY <1>14 DEF Zombie, table
    <2> QED
      BY <1>0, <2>1, <2>2 DEF Forks, ForkPlaces, ForkPcs
  <1>15. ASSUME NEW p \in Procs, WaitLock(p) PROVE ForkPlaces'
    <2>1. /\ \A r \in Procs : r # p => Where(r)' = Where(r)
          /\ Where(p) = "wait acquire" /\ Where(p)' = "scan"
      BY <1>0, <1>15 DEF WaitLock, TypeOK, Runs, Goto, Where
    <2>2. child' = child /\ parent' = parent
      BY <1>15 DEF WaitLock, table
    <2> QED
      BY <1>0, <2>1, <2>2 DEF Forks, ForkPlaces, ForkPcs
  <1>16. ASSUME NEW p \in Procs, NEW q \in Procs, Reap(p, q) PROVE ForkPlaces'
    <2>1. /\ \A r \in Procs : r # p => Where(r)' = Where(r)
          /\ Where(p) = "scan" /\ Where(p)' = "user"
      BY <1>0, <1>16 DEF Reap, TypeOK, Runs, Goto, Where
    <2>2. child' = child /\ parent' = [parent EXCEPT ![q] = None] /\ state[q] = "ZOMBIE"
      BY <1>16 DEF Reap
    <2>3. \A r \in Procs : child[r] # None => child[r] # q
      BY <1>0, <2>2 DEF Forks, ForkSlots
    <2>4. \A r \in Procs : child[r] # None => parent'[child[r]] = parent[child[r]]
      BY <1>0, <2>2, <2>3 DEF TypeOK
    <2>5. child' = child
      BY <2>2
    <2> QED
      BY <1>0, <2>1, <2>4, <2>5 DEF Forks, ForkPlaces, ForkPcs
  <1>17. ASSUME NEW p \in Procs, NEW q \in Procs, ReapFault(p, q) PROVE ForkPlaces'
    <2>1. /\ \A r \in Procs : r # p => Where(r)' = Where(r)
          /\ Where(p) = "scan" /\ Where(p)' = "user"
      BY <1>0, <1>17 DEF ReapFault, TypeOK, Runs, Goto, Where
    <2>2. child' = child /\ parent' = parent
      BY <1>17 DEF ReapFault, table
    <2> QED
      BY <1>0, <2>1, <2>2 DEF Forks, ForkPlaces, ForkPcs
  <1>18. ASSUME NEW p \in Procs, NoZombie(p) PROVE ForkPlaces'
    <2>1. /\ \A r \in Procs : r # p => Where(r)' = Where(r)
          /\ Where(p) = "scan" /\ Where(p)' \in {"user", "sleep"}
      BY <1>0, <1>18 DEF NoZombie, TypeOK, Runs, Goto, Where
    <2>2. child' = child /\ parent' = parent
      BY <1>18 DEF NoZombie, table
    <2> QED
      BY <1>0, <2>1, <2>2 DEF Forks, ForkPlaces, ForkPcs
  <1>19. ASSUME NEW p \in Procs, Sleep(p) PROVE ForkPlaces'
    <2>1. /\ \A r \in Procs : r # p => Where(r)' = Where(r)
          /\ Where(p) = "sleep" /\ Where(p)' = "slept"
      BY <1>0, <1>19 DEF Sleep, TypeOK, Runs, Goto, Where
    <2>2. child' = child /\ parent' = parent
      BY <1>19 DEF Sleep, table
    <2> QED
      BY <1>0, <2>1, <2>2 DEF Forks, ForkPlaces, ForkPcs
  <1>20. CASE UNCHANGED vars
    BY <1>0, <1>20 DEF vars, TypeOK, Forks, ForkPlaces, Where, ForkPcs, Runs, Goto,
       table
  <1> QED
    BY <1>1, <1>2, <1>3, <1>4, <1>5, <1>6, <1>7, <1>8, <1>9, <1>10, <1>11, <1>12, <1>13,
       <1>14, <1>15, <1>16, <1>17, <1>18, <1>19, <1>20, NextCases

\* A parent is set to a living process, and nobody dies with children.
LEMMA FamilyStep == ASSUME IInv, [Next]_vars PROVE Family'
  <1>0. TypeOK /\ Family /\ initproc \in Procs /\ None \notin Procs
    BY ProcAssumption DEF IInv
  <1>1. ASSUME NEW c \in CPUs, NEW p \in Procs, Schedule(c, p) PROVE Family'
    BY <1>0, <1>1 DEF Schedule, TypeOK, Family, Alive, Runs, Goto, table
  <1>2. ASSUME NEW c \in CPUs, SwitchOut(c) PROVE Family'
    BY <1>0, <1>2 DEF SwitchOut, TypeOK, Family, Alive, Runs, Goto, table
  <1>3. ASSUME NEW p \in Procs, Resume(p) PROVE Family'
    <2>0. ret[p] \notin {"zombie", "sleep"}
      BY DEF IInv, Places
    <2>1. /\ state' = state /\ parent' = parent
          /\ pc' = [pc EXCEPT ![p] = ret[p]] /\ ret[p] \notin {"zombie", "sleep"}
      BY <1>3, <2>0 DEF Resume, Runs, Goto, table
    <2> QED
      BY <1>0, <2>1 DEF TypeOK, Family, Alive
  <1>4. ASSUME NEW p \in Procs, Awake(p) PROVE Family'
    BY <1>0, <1>4 DEF Awake, TypeOK, Family, Alive, Runs, Goto, table
  <1>5. ASSUME NEW p \in Procs, NEW l \in Pcs, Move(p, l) PROVE Family'
    <2>1. /\ state' = state /\ parent' = parent
          /\ pc' = [pc EXCEPT ![p] = l] /\ l \notin {"zombie", "sleep"}
      BY <1>5 DEF Move, Runs, Goto, table
    <2> QED
      BY <1>0, <2>1 DEF TypeOK, Family, Alive
  <1>6. ASSUME NEW p \in Procs, NEW l \in Pcs, NEW r \in Pcs, Yields(p, l, r) PROVE Family'
    <2>1. /\ state' = [state EXCEPT ![p] = "RUNNABLE"] /\ state[p] = "RUNNING"
          /\ parent' = parent /\ pc' = [pc EXCEPT ![p] = "yielded"]
      BY <1>6 DEF Yields, YieldFrom, Runs, Goto, table
    <2> QED
      BY <1>0, <2>1 DEF TypeOK, Family, Alive
  <1>7. ASSUME NEW p \in Procs, NEW np \in Procs, ForkAlloc(p, np) PROVE Family'
    <2>1. /\ state' = [state EXCEPT ![np] = "USED"] /\ state[np] = "UNUSED"
          /\ parent' = parent /\ pc' = [pc EXCEPT ![p] = "fork parent"]
      BY <1>7 DEF ForkAlloc, Runs, Goto, table
    <2>2. \A r \in Procs : state'[r] = IF r = np THEN "USED" ELSE state[r]
      BY <1>0, <2>1 DEF TypeOK
    <2>3. \A r \in Procs : pc'[r] = "zombie" => pc[r] = "zombie"
      BY <1>0, <2>1 DEF TypeOK
    <2>4. \A r \in Procs : parent[r] # np
      BY <2>1, Childless
    <2>5. \A r \in Procs : parent[r] # None => parent[r] \in Procs
      BY <1>0 DEF TypeOK
    <2>6. parent' = parent /\ state[np] = "UNUSED"
      BY <2>1
    <2> QED
      BY <1>0, <2>2, <2>3, <2>4, <2>5, <2>6 DEF Family
  <1>8. ASSUME NEW p \in Procs, ForkParent(p) PROVE Family'
    <2>0. pc[p] \in ForkPcs
      BY <1>8 DEF ForkRun, ForkParent, Runs, ForkPcs
    <2>1. PICK np \in Procs :
             /\ np = child[p] /\ state[np] = "USED" /\ np # p /\ np # initproc /\ pc[np] = "none"
             /\ pc[p] = "fork acquire" => parent[np] = None
             /\ pc[p] = "fork run" => parent[np] = p
      BY <2>0, ForkSlot
    <2>2. parent' = [parent EXCEPT ![np] = p] /\ state' = state /\ state[p] = "RUNNING"
      BY <1>8, <2>1 DEF ForkParent, Runs
    <2>3. pc' = [pc EXCEPT ![p] = "fork run"] /\ pc[p] = "fork acquire"
      BY <1>8 DEF ForkParent, Runs, Goto
    <2>4. \A r \in Procs : parent'[r] = IF r = np THEN p ELSE parent[r]
      BY <1>0, <2>1, <2>2 DEF TypeOK
    <2>5. \A r \in Procs : pc'[r] = "zombie" => pc[r] = "zombie" /\ r # p
      BY <1>0, <2>3 DEF TypeOK
    <2>6. p # None /\ state[p] \in Alive /\ state' = state /\ state[np] = "USED"
      BY <1>0, <2>1, <2>2 DEF Alive
    <2> QED
      BY <1>0, <2>4, <2>5, <2>6 DEF Family
  <1>9. ASSUME NEW p \in Procs, ForkRun(p) PROVE Family'
    <2>0. pc[p] \in ForkPcs
      BY <1>9 DEF ForkRun, ForkParent, Runs, ForkPcs
    <2>1. PICK np \in Procs :
             /\ np = child[p] /\ state[np] = "USED" /\ np # p /\ np # initproc /\ pc[np] = "none"
             /\ pc[p] = "fork acquire" => parent[np] = None
             /\ pc[p] = "fork run" => parent[np] = p
      BY <2>0, ForkSlot
    <2>2. state' = [state EXCEPT ![np] = "RUNNABLE"] /\ parent' = parent
      BY <1>9, <2>1 DEF ForkRun
    <2>3. pc' = [pc EXCEPT ![np] = "yielded", ![p] = "user"] /\ pc[p] = "fork run"
      BY <1>9, <2>1 DEF ForkRun, Runs
    <2>4. \A r \in Procs : pc'[r] \in {"zombie", "sleep"} => pc'[r] = pc[r]
      BY <1>0, <2>1, <2>3 DEF TypeOK
    <2>5. \A r \in Procs : state'[r] = IF r = np THEN "RUNNABLE" ELSE state[r]
      BY <1>0, <2>2 DEF TypeOK
    <2>6. parent[np] # None /\ parent' = parent /\ state[np] = "USED"
      BY <1>0, <2>1, <2>2, <2>3
    <2>7. \A r \in Procs : parent[r] # np
      BY <2>1, Childless
    <2>8. \A r \in Procs : parent[r] # None => parent[r] \in Procs
      BY <1>0 DEF TypeOK
    <2> QED
      BY <1>0, <2>4, <2>5, <2>6, <2>7, <2>8 DEF Family
  <1>10. ASSUME NEW p \in Procs, NEW q \in Victims, Kill(p, q) PROVE Family'
    BY <1>0, <1>10 DEF Kill, TypeOK, Family, Alive, Runs, Goto, table
  <1>11. ASSUME NEW p \in Procs, ExitLock(p) PROVE Family'
    <2>1. /\ state' = state /\ parent' = parent
          /\ pc' = [pc EXCEPT ![p] = "reparent"] /\ "reparent" \notin {"zombie", "sleep"}
      BY <1>11 DEF ExitLock, Runs, Goto, table
    <2> QED
      BY <1>0, <2>1 DEF TypeOK, Family, Alive
  <1>12. ASSUME NEW p \in Procs, NEW q \in Procs, Adopts(p, q) PROVE Family'
    <2>1. /\ pc[p] = "reparent" /\ p # initproc /\ parent[q] = p
          /\ state'[initproc] \in {"RUNNABLE", "RUNNING"}
          /\ \A r \in Procs : r # initproc => state'[r] = state[r]
          /\ parent' = [parent EXCEPT ![q] = initproc] /\ pc' = pc
      BY <1>12, AdoptsEffect
    <2>2. pc[initproc] # "zombie" /\ state[initproc] \in Alive
      BY InitPlace DEF ExitPcs, IInv, InitLives
    <2> QED
      BY <1>0, <2>1, <2>2 DEF TypeOK, Family, Alive
  <1>13. ASSUME NEW p \in Procs, WakeParent(p) PROVE Family'
    <2>1. /\ \A q \in Procs : parent[q] # p
          /\ parent[p] \in Procs /\ state[parent[p]] \in Alive
          /\ state'[parent[p]] \in {"RUNNABLE", "RUNNING"}
          /\ \A r \in Procs : r # parent[p] => state'[r] = state[r]
          /\ pc' = [pc EXCEPT ![p] = "zombie"] /\ parent' = parent
      BY <1>13, WakeParentEffect
    <2> QED
      BY <1>0, <2>1 DEF TypeOK, Family, Alive
  <1>14. ASSUME NEW p \in Procs, Zombie(p) PROVE Family'
    <2>1. /\ state' = [state EXCEPT ![p] = "ZOMBIE"] /\ state[p] = "RUNNING" /\ pc[p] = "zombie"
          /\ parent' = parent /\ pc' = [pc EXCEPT ![p] = "none"]
      BY <1>14 DEF Zombie, Runs, Goto
    <2> QED
      BY <1>0, <2>1 DEF TypeOK, Family, Alive
  <1>15. ASSUME NEW p \in Procs, WaitLock(p) PROVE Family'
    <2>1. /\ state' = state /\ parent' = parent
          /\ pc' = [pc EXCEPT ![p] = "scan"] /\ "scan" \notin {"zombie", "sleep"}
      BY <1>15 DEF WaitLock, Runs, Goto, table
    <2> QED
      BY <1>0, <2>1 DEF TypeOK, Family, Alive
  <1>16. ASSUME NEW p \in Procs, NEW q \in Procs, Reap(p, q) PROVE Family'
    BY <1>0, <1>16 DEF Reap, Children, TypeOK, Family, Alive, Runs, Goto, table
  <1>17. ASSUME NEW p \in Procs, NEW q \in Procs, ReapFault(p, q) PROVE Family'
    BY <1>0, <1>17 DEF ReapFault, TypeOK, Family, Alive, Runs, Goto, table
  <1>18. ASSUME NEW p \in Procs, NoZombie(p) PROVE Family'
    BY <1>0, <1>18 DEF NoZombie, Children, TypeOK, Family, Alive, Runs, Goto, table
  <1>19. ASSUME NEW p \in Procs, Sleep(p) PROVE Family'
    BY <1>0, <1>19 DEF Sleep, TypeOK, Family, Alive, Runs, Goto, table
  <1>20. CASE UNCHANGED vars
    BY <1>0, <1>20 DEF vars, TypeOK, Family, Alive, Runs, Goto, table
  <1> QED
    BY <1>1, <1>2, <1>3, <1>4, <1>5, <1>6, <1>7, <1>8, <1>9, <1>10, <1>11, <1>12, <1>13,
       <1>14, <1>15, <1>16, <1>17, <1>18, <1>19, <1>20, NextCases

\* No zombie appears below a sleeper.
LEMMA WakeupsStep == ASSUME IInv, [Next]_vars PROVE Wakeups'
  <1>0. TypeOK /\ Wakeups /\ initproc \in Procs /\ None \notin Procs
    BY ProcAssumption DEF IInv
  <1>1. ASSUME NEW c \in CPUs, NEW p \in Procs, Schedule(c, p) PROVE Wakeups'
    BY <1>0, <1>1 DEF Schedule, TypeOK, Wakeups, NoLostWakeup, Children, Runs, Goto,
       table
  <1>2. ASSUME NEW c \in CPUs, SwitchOut(c) PROVE Wakeups'
    BY <1>0, <1>2 DEF SwitchOut, TypeOK, Wakeups, NoLostWakeup, Children, Runs, Goto,
       table
  <1>3. ASSUME NEW p \in Procs, Resume(p) PROVE Wakeups'
    <2>0. ret[p] \notin {"zombie", "sleep"}
      BY DEF IInv, Places
    <2>1. /\ state' = state /\ parent' = parent
          /\ pc' = [pc EXCEPT ![p] = ret[p]] /\ ret[p] \notin {"zombie", "sleep"}
      BY <1>3, <2>0 DEF Resume, Runs, Goto, table
    <2> QED
      BY <1>0, <2>1 DEF TypeOK, Wakeups, NoLostWakeup, Children
  <1>4. ASSUME NEW p \in Procs, Awake(p) PROVE Wakeups'
    BY <1>0, <1>4 DEF Awake, TypeOK, Wakeups, NoLostWakeup, Children, Runs, Goto, table
  <1>5. ASSUME NEW p \in Procs, NEW l \in Pcs, Move(p, l) PROVE Wakeups'
    BY <1>0, <1>5 DEF Move, TypeOK, Wakeups, NoLostWakeup, Children, Runs, Goto, table
  <1>6. ASSUME NEW p \in Procs, NEW l \in Pcs, NEW r \in Pcs, Yields(p, l, r) PROVE Wakeups'
    <2>1. /\ state' = [state EXCEPT ![p] = "RUNNABLE"] /\ state[p] = "RUNNING"
          /\ parent' = parent /\ pc' = [pc EXCEPT ![p] = "yielded"]
      BY <1>6 DEF Yields, YieldFrom, Runs, Goto, table
    <2> QED
      BY <1>0, <2>1 DEF TypeOK, Wakeups, NoLostWakeup, Children
  <1>7. ASSUME NEW p \in Procs, NEW np \in Procs, ForkAlloc(p, np) PROVE Wakeups'
    <2>1. /\ state' = [state EXCEPT ![np] = "USED"] /\ state[np] = "UNUSED"
          /\ parent' = parent /\ pc' = [pc EXCEPT ![p] = "fork parent"]
      BY <1>7 DEF ForkAlloc, Runs, Goto, table
    <2>2. \A r \in Procs : state'[r] = IF r = np THEN "USED" ELSE state[r]
      BY <1>0, <2>1 DEF TypeOK
    <2>3. \A r \in Procs : pc'[r] \in {"zombie", "sleep"} => pc'[r] = pc[r]
      BY <1>0, <2>1 DEF TypeOK
    <2>4. \A r \in Procs : parent[r] # np
      BY <2>1, Childless
    <2>5. parent' = parent
      BY <2>1
    <2>6. \A r \in Procs : pc[r] = "zombie" => parent[r] \in Procs
      BY HasParent DEF ExitPcs
    <2> QED
      BY <1>0, <2>2, <2>3, <2>4, <2>5, <2>6 DEF Wakeups, NoLostWakeup, Children
  <1>8. ASSUME NEW p \in Procs, ForkParent(p) PROVE Wakeups'
    <2>0. pc[p] \in ForkPcs
      BY <1>8 DEF ForkRun, ForkParent, Runs, ForkPcs
    <2>1. PICK np \in Procs :
             /\ np = child[p] /\ state[np] = "USED" /\ np # p /\ np # initproc /\ pc[np] = "none"
             /\ pc[p] = "fork acquire" => parent[np] = None
             /\ pc[p] = "fork run" => parent[np] = p
      BY <2>0, ForkSlot
    <2>2. parent' = [parent EXCEPT ![np] = p] /\ state' = state /\ state[p] = "RUNNING"
      BY <1>8, <2>1 DEF ForkParent, Runs
    <2>3. pc' = [pc EXCEPT ![p] = "fork run"] /\ pc[p] = "fork acquire"
      BY <1>8 DEF ForkParent, Runs, Goto
    <2> QED
      BY <1>0, <2>1, <2>2, <2>3 DEF TypeOK, Wakeups, NoLostWakeup, Children
  <1>9. ASSUME NEW p \in Procs, ForkRun(p) PROVE Wakeups'
    <2>0. pc[p] \in ForkPcs
      BY <1>9 DEF ForkRun, ForkParent, Runs, ForkPcs
    <2>1. PICK np \in Procs :
             /\ np = child[p] /\ state[np] = "USED" /\ np # p /\ np # initproc /\ pc[np] = "none"
             /\ pc[p] = "fork acquire" => parent[np] = None
             /\ pc[p] = "fork run" => parent[np] = p
      BY <2>0, ForkSlot
    <2>2. state' = [state EXCEPT ![np] = "RUNNABLE"] /\ parent' = parent
      BY <1>9, <2>1 DEF ForkRun
    <2>3. pc' = [pc EXCEPT ![np] = "yielded", ![p] = "user"] /\ pc[p] = "fork run"
      BY <1>9, <2>1 DEF ForkRun, Runs
    <2>4. \A r \in Procs : pc'[r] \in {"zombie", "sleep"} => pc'[r] = pc[r]
      BY <1>0, <2>1, <2>3 DEF TypeOK
    <2>5. \A r \in Procs : state'[r] = IF r = np THEN "RUNNABLE" ELSE state[r]
      BY <1>0, <2>2 DEF TypeOK
    <2>6. \A r \in Procs : parent[r] # np
      BY <2>1, Childless
    <2> QED
      BY <1>0, <2>2, <2>4, <2>5, <2>6 DEF Wakeups, NoLostWakeup, Children
  <1>10. ASSUME NEW p \in Procs, NEW q \in Victims, Kill(p, q) PROVE Wakeups'
    BY <1>0, <1>10 DEF Kill, TypeOK, Wakeups, NoLostWakeup, Children, Runs, Goto, table
  <1>11. ASSUME NEW p \in Procs, ExitLock(p) PROVE Wakeups'
    BY <1>0, <1>11 DEF ExitLock, TypeOK, Wakeups, NoLostWakeup, Children, Runs, Goto,
       table
  <1>12. ASSUME NEW p \in Procs, NEW q \in Procs, Adopts(p, q) PROVE Wakeups'
    <2>1. /\ pc[p] = "reparent" /\ p # initproc /\ parent[q] = p
          /\ state'[initproc] \in {"RUNNABLE", "RUNNING"}
          /\ \A r \in Procs : r # initproc => state'[r] = state[r]
          /\ parent' = [parent EXCEPT ![q] = initproc] /\ pc' = pc
      BY <1>12, AdoptsEffect
    <2>2. \A r \in Procs : pc[r] \notin {"zombie", "sleep"}
      BY <2>1, Alone DEF WaitLockPcs
    <2> QED
      BY <1>0, <2>1, <2>2 DEF TypeOK, Wakeups, NoLostWakeup, Children
  <1>13. ASSUME NEW p \in Procs, WakeParent(p) PROVE Wakeups'
    <2>1. /\ pc[p] = "reparent" /\ \A q \in Procs : parent[q] # p
          /\ parent[p] \in Procs /\ state[parent[p]] \in Alive
          /\ state'[parent[p]] \in {"RUNNABLE", "RUNNING"}
          /\ \A r \in Procs : r # parent[p] => state'[r] = state[r]
          /\ pc' = [pc EXCEPT ![p] = "zombie"] /\ parent' = parent
      BY <1>13, WakeParentEffect
    <2>2. \A r \in Procs : pc[r] \notin {"zombie", "sleep"}
      BY <2>1, Alone DEF WaitLockPcs
    <2> QED
      BY <1>0, <2>1, <2>2 DEF TypeOK, Wakeups, NoLostWakeup, Children, Alive
  <1>14. ASSUME NEW p \in Procs, Zombie(p) PROVE Wakeups'
    <2>1. /\ state' = [state EXCEPT ![p] = "ZOMBIE"] /\ pc[p] = "zombie"
          /\ parent' = parent /\ pc' = [pc EXCEPT ![p] = "none"]
      BY <1>14 DEF Zombie, Runs, Goto
    <2>2. \A r \in Procs : pc[r] \in {"zombie", "sleep"} => r = p
      BY <2>1, Alone DEF WaitLockPcs
    <2> QED
      BY <1>0, <2>1, <2>2 DEF TypeOK, Wakeups, NoLostWakeup, Children
  <1>15. ASSUME NEW p \in Procs, WaitLock(p) PROVE Wakeups'
    BY <1>0, <1>15 DEF WaitLock, TypeOK, Wakeups, NoLostWakeup, Children, Runs, Goto,
       table
  <1>16. ASSUME NEW p \in Procs, NEW q \in Procs, Reap(p, q) PROVE Wakeups'
    <2>1. /\ state' = [state EXCEPT ![q] = "UNUSED"]
          /\ parent' = [parent EXCEPT ![q] = None] /\ pc' = [pc EXCEPT ![p] = "user"]
      BY <1>16 DEF Reap, Goto
    <2>2. pc[p] = "scan"
      BY <1>16 DEF Reap, Runs
    <2>3. \A r \in Procs : pc[r] \notin {"zombie", "sleep"}
      BY <2>2, Alone DEF WaitLockPcs
    <2> QED
      BY <1>0, <2>1, <2>3 DEF TypeOK, Wakeups, NoLostWakeup, Children
  <1>17. ASSUME NEW p \in Procs, NEW q \in Procs, ReapFault(p, q) PROVE Wakeups'
    BY <1>0, <1>17 DEF ReapFault, TypeOK, Wakeups, NoLostWakeup, Children, Runs, Goto,
       table
  <1>18. ASSUME NEW p \in Procs, NoZombie(p) PROVE Wakeups'
    BY <1>0, <1>18 DEF NoZombie, Children, TypeOK, Wakeups, NoLostWakeup, Children,
       Runs, Goto, table
  <1>19. ASSUME NEW p \in Procs, Sleep(p) PROVE Wakeups'
    <2>1. /\ state' = [state EXCEPT ![p] = "SLEEPING"] /\ pc[p] = "sleep"
          /\ parent' = parent /\ pc' = [pc EXCEPT ![p] = "slept"]
      BY <1>19 DEF Sleep, Runs, Goto
    <2>2. \A r \in Procs : pc[r] \in {"zombie", "sleep"} => r = p
      BY <2>1, Alone DEF WaitLockPcs
    <2> QED
      BY <1>0, <2>1, <2>2 DEF TypeOK, Wakeups, NoLostWakeup, Children
  <1>20. CASE UNCHANGED vars
    BY <1>0, <1>20 DEF vars, TypeOK, Wakeups, NoLostWakeup, Children, Runs, Goto, table
  <1> QED
    BY <1>1, <1>2, <1>3, <1>4, <1>5, <1>6, <1>7, <1>8, <1>9, <1>10, <1>11, <1>12, <1>13,
       <1>14, <1>15, <1>16, <1>17, <1>18, <1>19, <1>20, NextCases

-----------------------------------------------------------------------------
\* No step leaves the inductive invariant.
LEMMA NextIInv == ASSUME IInv, [Next]_vars PROVE IInv'
  BY TypeStep, PlacesStep, StacksStep, LockedStep, InitStep, SlotsStep, PlacesOfForkStep,
     FamilyStep, WakeupsStep DEF IInv, Forks

\* The inductive invariant holds in every reachable state of the process table.
LEMMA Invariance == Spec => []IInv
  BY InitIInv, NextIInv, PTL DEF Spec

\* The fields of struct proc and the places of the threads keep their types.
THEOREM TypeCorrect == Spec => []TypeOK
  BY Invariance, PTL DEF IInv

\* A kernel stack is used by one CPU at a time: the locks that the scheduler,
\* sched and yield hand over in swtch are enough, for any number of CPUs.
THEOREM StacksCorrect == Spec => []OneCpuPerProc
  <1>1. IInv => OneCpuPerProc
    BY DEF IInv, Stacks
  <1> QED
    BY <1>1, Invariance, PTL

\* No process sleeps in wait() while one of its children is a zombie, whatever
\* exits, kills and waits overlap.
THEOREM WakeupCorrect == Spec => []NoLostWakeup
  <1>1. IInv => NoLostWakeup
    BY DEF IInv, Wakeups
  <1> QED
    BY <1>1, Invariance, PTL

\* Whoever runs or is a zombie has a living parent: exit hands over its children
\* before its parent may free it, and fork sets the parent before the child runs.
THEOREM ParentCorrect == Spec => []NoOrphan
  <1>1. ASSUME IInv PROVE NoOrphan
    <2>1. SUFFICES ASSUME NEW q \in Procs, q # initproc,
                          state[q] \in {"SLEEPING", "RUNNABLE", "RUNNING", "ZOMBIE"}
                   PROVE  parent[q] \in Procs /\ state[parent[q]] \in Alive
      BY DEF NoOrphan, Alive
    <2>2. parent[q] # None
      BY <1>1, <2>1 DEF IInv, Family
    <2> QED
      BY <1>1, <2>2 DEF IInv, Family, TypeOK
  <1> QED
    BY <1>1, Invariance, PTL

\* wait_lock belongs to the one process between its acquire and its release in
\* exit, wait and sleep.
THEOREM LockCorrect == Spec => []WaitLockHeld
  <1>1. ASSUME IInv PROVE WaitLockHeld
    <2>1. \A p \in Procs : state[p] = "UNUSED" => pc[p] = "none"
      BY <1>1 DEF IInv, Places
    <2> QED
      BY <1>1, <2>1 DEF IInv, Locked, WaitLockHeld, WaitLockPcs
  <1> QED
    BY <1>1, Invariance, PTL

-----------------------------------------------------------------------------
(* Proc implements ProcessTree.                                            *)

\* A step after which the same processes have exited, the same slots are free
\* and the parents are the same is no step of the tree: scheduling, sleeping,
\* waking, killing and the locks are invisible.
LEMMA Invisible ==
  ASSUME parent' = parent, TypeOK,
         \A r \in Procs : Exited(r)' <=> Exited(r),
         \A r \in Procs : \/ state'[r] = state[r]
                          \/ {state[r], state'[r]} \cap {"UNUSED", "USED"} = {}
  PROVE  UNCHANGED Tree!vars
  <1>1. \A r \in Procs : Life(r)' = Life(r)
    BY DEF Life
  <1>2. \A r \in Procs : parent[r] # None => parent[r] \in Procs
    BY DEF TypeOK
  <1>3. \A r \in Procs : TreeParent(r)' = TreeParent(r)
    BY <1>2 DEF TreeParent
  <1> QED
    BY <1>1, <1>3 DEF Tree!vars

\* Each step that changes nothing in the tree.
LEMMA InvisibleStep ==
  ASSUME IInv,
         \/ \E c \in CPUs, p \in Procs : Schedule(c, p)
         \/ \E c \in CPUs : SwitchOut(c)
         \/ \E p \in Procs : Resume(p) \/ Awake(p)
         \/ \E p \in Procs, l \in Pcs : Move(p, l)
         \/ \E p \in Procs, l \in Pcs, r \in Pcs : Yields(p, l, r)
         \/ \E p \in Procs, q \in Victims : Kill(p, q)
         \/ \E p \in Procs : WakeParent(p) \/ Zombie(p)
         \/ \E p \in Procs : WaitLock(p) \/ NoZombie(p) \/ Sleep(p)
         \/ \E p \in Procs, q \in Procs : ReapFault(p, q)
         \/ UNCHANGED vars
  PROVE  UNCHANGED Tree!vars
  <1> DEFINE Same == /\ parent' = parent
                     /\ \A r \in Procs : Exited(r)' <=> Exited(r)
                     /\ \A r \in Procs : \/ state'[r] = state[r]
                                         \/ {state[r], state'[r]} \cap {"UNUSED", "USED"} = {}
  <1>0. TypeOK /\ initproc \in Procs /\ None \notin Procs
    BY ProcAssumption DEF IInv
  <1>1. ASSUME NEW c \in CPUs, NEW p \in Procs, Schedule(c, p) PROVE Same
    BY <1>0, <1>1 DEF Schedule, TypeOK, Exited, Runs, Goto, table
  <1>2. ASSUME NEW c \in CPUs, SwitchOut(c) PROVE Same
    BY <1>0, <1>2 DEF SwitchOut, TypeOK, Exited, Runs, Goto, table
  <1>3. ASSUME NEW p \in Procs, Resume(p) PROVE Same
    <2>1. ret[p] \notin {"reparent", "zombie"}
      BY DEF IInv, Places
    <2> QED
      BY <1>0, <1>3, <2>1 DEF Resume, TypeOK, Exited, Runs, Goto, table
  <1>4. ASSUME NEW p \in Procs, Awake(p) PROVE Same
    BY <1>0, <1>4 DEF Awake, TypeOK, Exited, Runs, Goto, table
  <1>5. ASSUME NEW p \in Procs, NEW l \in Pcs, Move(p, l) PROVE Same
    BY <1>0, <1>5 DEF Move, TypeOK, Exited, Runs, Goto, table
  <1>6. ASSUME NEW p \in Procs, NEW l \in Pcs, NEW r \in Pcs, Yields(p, l, r) PROVE Same
    BY <1>0, <1>6 DEF Yields, YieldFrom, TypeOK, Exited, Runs, Goto, table
  <1>7. ASSUME NEW p \in Procs, NEW q \in Victims, Kill(p, q) PROVE Same
    BY <1>0, <1>7, ProcAssumption DEF Kill, TypeOK, Exited, Runs, Goto, table
  <1>8. ASSUME NEW p \in Procs, WakeParent(p) PROVE Same
    <2>1. /\ pc[p] = "reparent" /\ state'[parent[p]] \in {"RUNNABLE", "RUNNING"}
          /\ state[parent[p]] \in Alive /\ parent' = parent
          /\ \A r \in Procs : r # parent[p] => state'[r] = state[r]
          /\ pc' = [pc EXCEPT ![p] = "zombie"]
      BY <1>8, WakeParentEffect
    <2> QED
      BY <1>0, <2>1 DEF TypeOK, Exited, Alive
  <1>9. ASSUME NEW p \in Procs, Zombie(p) PROVE Same
    BY <1>0, <1>9 DEF Zombie, TypeOK, Exited, Runs, Goto, table
  <1>10. ASSUME NEW p \in Procs, WaitLock(p) PROVE Same
    BY <1>0, <1>10 DEF WaitLock, TypeOK, Exited, Runs, Goto, table
  <1>11. ASSUME NEW p \in Procs, NoZombie(p) PROVE Same
    BY <1>0, <1>11 DEF NoZombie, TypeOK, Exited, Runs, Goto, table
  <1>12. ASSUME NEW p \in Procs, Sleep(p) PROVE Same
    BY <1>0, <1>12 DEF Sleep, TypeOK, Exited, Runs, Goto, table
  <1>13. ASSUME NEW p \in Procs, NEW q \in Procs, ReapFault(p, q) PROVE Same
    BY <1>0, <1>13 DEF ReapFault, TypeOK, Exited, Runs, Goto, table
  <1>14. ASSUME UNCHANGED vars PROVE Same
    BY <1>14 DEF vars, table, Exited
  <1>15. Same
    BY <1>1, <1>2, <1>3, <1>4, <1>5, <1>6, <1>7, <1>8, <1>9, <1>10, <1>11, <1>12, <1>13, <1>14
  <1> QED
    BY <1>0, <1>15, Invisible

\* The slot that fork found stays free in the tree until it has a parent.
LEMMA AllocInvisible ==
  ASSUME IInv, NEW p \in Procs, NEW np \in Procs, ForkAlloc(p, np)
  PROVE  UNCHANGED Tree!vars
  <1>0. TypeOK
    BY DEF IInv
  <1>1. parent' = parent /\ state[np] = "UNUSED" /\ parent[np] = None
    BY DEF ForkAlloc, IInv, Family
  <1>2. \A r \in Procs : state'[r] = IF r = np THEN "USED" ELSE state[r]
    BY <1>0 DEF ForkAlloc, TypeOK
  <1>3. \A r \in Procs : Exited(r)' <=> Exited(r)
    BY <1>0, <1>1, <1>2 DEF ForkAlloc, TypeOK, Exited, Runs, Goto
  <1>4. \A r \in Procs : Life(r)' = Life(r)
    BY <1>1, <1>2, <1>3 DEF Life
  <1>5. \A r \in Procs : parent[r] # None => parent[r] \in Procs
    BY <1>0 DEF TypeOK
  <1>6. \A r \in Procs : TreeParent(r)' = TreeParent(r)
    BY <1>1, <1>3, <1>5 DEF TreeParent
  <1> QED
    BY <1>4, <1>6 DEF Tree!vars

\* A child that has a parent is alive before it runs.
LEMMA RunInvisible ==
  ASSUME IInv, NEW p \in Procs, ForkRun(p)
  PROVE  UNCHANGED Tree!vars
  <1>0. TypeOK /\ None \notin Procs
    BY ProcAssumption DEF IInv
  <1>1. pc[p] \in ForkPcs /\ pc[p] = "fork run"
    BY DEF ForkRun, Runs, ForkPcs
  <1>2. PICK np \in Procs : /\ np = child[p] /\ state[np] = "USED" /\ pc[np] = "none"
                            /\ np # p /\ parent[np] = p
    BY <1>1, ForkSlot
  <1>3. parent' = parent /\ \A r \in Procs : state'[r] = IF r = np THEN "RUNNABLE" ELSE state[r]
    BY <1>0, <1>2 DEF ForkRun, TypeOK
  <1>4. \A r \in Procs : \/ pc'[r] = pc[r]
                         \/ {pc[r], pc'[r]} \cap {"reparent", "zombie"} = {}
    BY <1>0, <1>1, <1>2 DEF ForkRun, TypeOK
  <1>5. \A r \in Procs : Exited(r)' <=> Exited(r)
    BY <1>2, <1>3, <1>4 DEF Exited
  <1>6. \A r \in Procs : Life(r)' = Life(r)
    BY <1>0, <1>2, <1>3, <1>5 DEF Life
  <1>7. \A r \in Procs : parent[r] # None => parent[r] \in Procs
    BY <1>0 DEF TypeOK
  <1>8. \A r \in Procs : TreeParent(r)' = TreeParent(r)
    BY <1>3, <1>5, <1>7 DEF TreeParent
  <1> QED
    BY <1>6, <1>8 DEF Tree!vars

\* reparent's loop only writes down what the tree knows since exit took
\* wait_lock: the children of p are init's.
LEMMA AdoptsInvisible ==
  ASSUME IInv, NEW p \in Procs, NEW q \in Procs, Adopts(p, q)
  PROVE  UNCHANGED Tree!vars
  <1>0. TypeOK /\ initproc \in Procs /\ None \notin Procs
    BY ProcAssumption DEF IInv
  <1>1. /\ pc[p] = "reparent" /\ parent[q] = p /\ pc' = pc
        /\ state'[initproc] \in {"RUNNABLE", "RUNNING"} /\ state[initproc] \in Alive
        /\ \A r \in Procs : r # initproc => state'[r] = state[r]
    BY AdoptsEffect DEF IInv, InitLives
  <1>2. \A r \in Procs : parent'[r] = IF r = q THEN initproc ELSE parent[r]
    BY <1>0, AdoptsEffect DEF TypeOK
  <1>3. \A r \in Procs : Exited(r)' <=> Exited(r)
    BY <1>1 DEF Exited, Alive
  <1>4. Exited(p) /\ ~Exited(initproc)
    BY <1>1, InitPlace DEF Exited, Alive, ExitPcs
  <1>5. p # None /\ initproc # None
    BY <1>0
  <1>6. \A r \in Procs : Life(r)' = Life(r)
    BY <1>1, <1>2, <1>3, <1>5 DEF Life, Alive
  <1>7. \A r \in Procs : parent[r] # None => parent[r] \in Procs
    BY <1>0 DEF TypeOK
  <1>8. \A r \in Procs : TreeParent(r)' = TreeParent(r)
    BY <1>0, <1>1, <1>2, <1>3, <1>4, <1>5, <1>7 DEF TreeParent
  <1> QED
    BY <1>6, <1>8 DEF Tree!vars

\* Setting the parent of the new child is the fork of the tree.
LEMMA ParentForks ==
  ASSUME IInv, NEW p \in Procs, ForkParent(p)
  PROVE  \E np \in Procs : Tree!Fork(p, np)
  <1>0. TypeOK /\ None \notin Procs
    BY ProcAssumption DEF IInv
  <1>1. pc[p] \in ForkPcs /\ pc[p] = "fork acquire" /\ state[p] = "RUNNING"
    BY DEF ForkParent, Runs, ForkPcs
  <1>2. PICK np \in Procs : /\ np = child[p] /\ state[np] = "USED" /\ pc[np] = "none"
                            /\ np # p /\ parent[np] = None
    BY <1>1, ForkSlot
  <1>3. state' = state /\ \A r \in Procs : parent'[r] = IF r = np THEN p ELSE parent[r]
    BY <1>0, <1>2 DEF ForkParent, TypeOK
  <1>4. \A r \in Procs : \/ pc'[r] = pc[r]
                         \/ {pc[r], pc'[r]} \cap {"reparent", "zombie"} = {}
    BY <1>0, <1>1 DEF ForkParent, Goto, TypeOK
  <1>5. (\A r \in Procs : Exited(r)' <=> Exited(r)) /\ ~Exited(p) /\ ~Exited(np)
    BY <1>1, <1>2, <1>3, <1>4 DEF Exited
  <1>6. p # None
    BY <1>0
  <1>7. /\ Life(p) = "alive" /\ Life(np) = "free" /\ Life(np)' = "alive"
        /\ \A r \in Procs : r # np => Life(r)' = Life(r)
    BY <1>1, <1>2, <1>3, <1>5, <1>6 DEF Life
  <1>8. \A r \in Procs : parent[r] # None => parent[r] \in Procs
    BY <1>0 DEF TypeOK
  <1>9. TreeParent(np)' = p /\ \A r \in Procs : r # np => TreeParent(r)' = TreeParent(r)
    BY <1>2, <1>3, <1>5, <1>6, <1>8 DEF TreeParent
  <1> QED
    BY <1>7, <1>9 DEF Tree!Fork

\* exit happens when it takes wait_lock.
LEMMA LockExits ==
  ASSUME IInv, NEW p \in Procs, ExitLock(p)
  PROVE  Tree!Exit(p)
  <1>0. TypeOK /\ initproc \in Procs /\ None \notin Procs
    BY ProcAssumption DEF IInv
  <1>1. pc[p] = "exit acquire" /\ state[p] = "RUNNING" /\ p # initproc /\ p # None
    BY <1>0, InitPlace DEF ExitLock, Runs, ExitPcs
  <1>2. state' = state /\ parent' = parent
        /\ \A r \in Procs : pc'[r] = IF r = p THEN "reparent" ELSE pc[r]
    BY <1>0 DEF ExitLock, table, Goto, TypeOK
  <1>3. Exited(p)' /\ ~Exited(p) /\ \A r \in Procs : r # p => (Exited(r)' <=> Exited(r))
    BY <1>1, <1>2 DEF Exited
  <1>4. Life(p) = "alive" /\ Life(p)' = "dead" /\ \A r \in Procs : r # p => Life(r)' = Life(r)
    BY <1>1, <1>2, <1>3 DEF Life
  <1>5. \A r \in Procs : parent[r] # None => parent[r] \in Procs
    BY <1>0 DEF TypeOK
  <1>6. \A r \in Procs : TreeParent(r)' = IF TreeParent(r) = p THEN initproc ELSE TreeParent(r)
    BY <1>1, <1>2, <1>3, <1>5 DEF TreeParent
  <1> QED
    BY <1>1, <1>4, <1>6 DEF Tree!Exit

\* freeproc in wait frees a dead child in the tree, and it has no children.
LEMMA ReapReaps ==
  ASSUME IInv, NEW p \in Procs, NEW q \in Procs, Reap(p, q)
  PROVE  Tree!Reap(p, q)
  <1>0. TypeOK /\ None \notin Procs
    BY ProcAssumption DEF IInv
  <1>1. /\ pc[p] = "scan" /\ state[p] = "RUNNING" /\ p # None
        /\ parent[q] = p /\ state[q] = "ZOMBIE" /\ p # q
    BY <1>0 DEF Reap, Runs, Children
  <1>2. pc[q] = "none"
    BY <1>1 DEF IInv, Places
  <1>3. \A r \in Procs : parent[r] # q
    BY <1>1, Childless
  <1>4. /\ \A r \in Procs : state'[r] = IF r = q THEN "UNUSED" ELSE state[r]
        /\ \A r \in Procs : parent'[r] = IF r = q THEN None ELSE parent[r]
        /\ \A r \in Procs : pc'[r] = IF r = p THEN "user" ELSE pc[r]
    BY <1>0 DEF Reap, Goto, TypeOK
  <1>5. /\ ~Exited(p) /\ ~Exited(p)' /\ Exited(q)
        /\ \A r \in Procs : r # q => (Exited(r)' <=> Exited(r))
    BY <1>1, <1>4 DEF Exited
  <1>6. /\ Life(p) = "alive" /\ Life(q) = "dead" /\ Life(q)' = "free"
        /\ \A r \in Procs : r # q => Life(r)' = Life(r)
    BY <1>1, <1>4, <1>5 DEF Life
  <1>7. \A r \in Procs : parent[r] # None => parent[r] \in Procs
    BY <1>0 DEF TypeOK
  <1>8. /\ TreeParent(q) = p /\ TreeParent(q)' = None
        /\ \A r \in Procs : r # q => TreeParent(r)' = TreeParent(r)
    BY <1>1, <1>3, <1>4, <1>5, <1>7 DEF TreeParent
  <1> QED
    BY <1>6, <1>8 DEF Tree!Reap

\* Every step of the process table is a step of the tree or leaves it alone.
LEMMA TreeStep == ASSUME IInv, [Next]_vars PROVE [Tree!Next]_(Tree!vars)
  <1>1. ASSUME NEW p \in Procs, ForkParent(p) \/ ExitLock(p) \/ \E q \in Procs : Reap(p, q)
        PROVE  Tree!Next
    BY <1>1, ParentForks, LockExits, ReapReaps DEF Tree!Next
  <1>2. ASSUME NEW p \in Procs,
               \/ \E np \in Procs : ForkAlloc(p, np) \/ Adopts(p, np)
               \/ ForkRun(p)
        PROVE  UNCHANGED Tree!vars
    BY <1>2, AllocInvisible, RunInvisible, AdoptsInvisible
  <1>3. ASSUME ~ \E p \in Procs : ForkParent(p) \/ ExitLock(p) \/ \E q \in Procs : Reap(p, q),
               ~ \E p \in Procs : ForkRun(p) \/ \E np \in Procs : ForkAlloc(p, np) \/ Adopts(p, np)
        PROVE  UNCHANGED Tree!vars
    BY <1>3, NextCases, InvisibleStep
  <1> QED
    BY <1>1, <1>2, <1>3

\* fork, exit and wait, interleaved lock by lock on any number of CPUs, are
\* single steps on the tree of processes.
THEOREM Refinement == Spec => ImplementsTree
  <1>1. ASSUME Init PROVE Tree!Init
    <2>1. \A p \in Procs : /\ Life(p) = IF p = initproc THEN "alive" ELSE "free"
                           /\ TreeParent(p) = None
      BY <1>1 DEF Init, Life, TreeParent, Exited
    <2> QED
      BY <2>1 DEF Tree!Init
  <1> QED
    BY <1>1, Invariance, TreeStep, PTL DEF Spec, ImplementsTree, Tree!Spec
=============================================================================
