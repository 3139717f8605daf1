----------------------------- MODULE ProcessTree -----------------------------
(***************************************************************************)
(* What fork, exit and wait promise: each is one step on a tree of         *)
(* processes.  A process is alive, dead (it has exited and its parent does *)
(* not know) or its slot is free.  Proc implements this specification.     *)
(***************************************************************************)
CONSTANTS Procs, initproc, None

VARIABLES life, parent

vars == <<life, parent>>

Init ==
    /\ life = [p \in Procs |-> IF p = initproc THEN "alive" ELSE "free"]
    /\ parent = [p \in Procs |-> None]

Fork(p, q) ==
    /\ life[p] = "alive" /\ life[q] = "free"
    /\ life' = [life EXCEPT ![q] = "alive"]
    /\ parent' = [parent EXCEPT ![q] = p]

\* The children of p, dead or alive, belong to init from now on.
Exit(p) ==
    /\ life[p] = "alive" /\ p # initproc
    /\ life' = [life EXCEPT ![p] = "dead"]
    /\ parent' = [q \in Procs |-> IF parent[q] = p THEN initproc ELSE parent[q]]

\* wait: p learns of the death of its child q.
Reap(p, q) ==
    /\ life[p] = "alive" /\ life[q] = "dead" /\ parent[q] = p
    /\ life' = [life EXCEPT ![q] = "free"]
    /\ parent' = [parent EXCEPT ![q] = None]

Next == \E p \in Procs : Exit(p) \/ \E q \in Procs : Fork(p, q) \/ Reap(p, q)

Spec == Init /\ [][Next]_vars
=============================================================================
