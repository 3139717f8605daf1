------------------------------ MODULE Program2 ------------------------------
(***************************************************************************)
(* program2.c of HW1, a kernel module.  program2_init starts a kernel      *)
(* thread that runs my_fork: it clones a child that executes /tmp/test in  *)
(* my_exec, waits for it with kernel_wait and prints what it finds in the  *)
(* status word.  kernel_wait (external) waits for the end of the child     *)
(* only, and leaves status alone when there is no child to wait for.       *)
(* rmmod may come at any time once the module is loaded; a thread that     *)
(* then goes on in the module's code faults.                               *)
(***************************************************************************)
EXTENDS Child

\* The value that my_fork gives status before it waits: SIGVTALRM, core dumped.
UNSET == 666

UNTOUCHED2 == <<prog, news, pending>>
In2(l) == prog = "program2" /\ pc = l /\ mod # "removed"
KMsg(what, n) == Msg("parent", what, n)

\* program2_init: kthread_create fails, or the thread is woken up.
program2_init ==
    /\ In2("init")
    /\ \/ mod' = "failed" /\ pc' = "done"
       \/ mod' = "loaded" /\ pc' = "signals"
    /\ Say(<<KMsg("Module_init", 0)>>)
    /\ UNCHANGED <<UNTOUCHED2, status, cpc, child, ignores, hist>>

program2_exit ==
    /\ prog = "program2" /\ mod = "loaded"
    /\ mod' = "removed"
    /\ Say(<<KMsg("Module_exit", 0)>>)
    /\ UNCHANGED <<UNTOUCHED2, pc, status, cpc, child, ignores, hist>>

\* Mutant: the actions of the signals stay those of a kernel thread.
KeepSignals ==
    /\ In2("signals")
    /\ pc' = "clone"
    /\ UNCHANGED <<UNTOUCHED2, status, cpc, child, ignores, mod, out, hist>>

\* my_fork: a kernel thread ignores all signals, the child would inherit that.
SetSignals ==
    /\ In2("signals")
    /\ ignores' = FALSE
    /\ pc' = "clone"
    /\ UNCHANGED <<UNTOUCHED2, status, cpc, child, mod, out, hist>>

CloneFails ==
    /\ In2("clone")
    /\ pc' = "done"
    /\ UNCHANGED <<UNTOUCHED2, status, cpc, child, ignores, mod, out, hist>>

Clone ==
    /\ In2("clone")
    /\ NewChild("my_exec")
    /\ status' = UNSET
    /\ pc' = "kernel_wait"
    /\ UNCHANGED <<UNTOUCHED2, ignores, mod, out, hist>>

ChildIn2 == prog = "program2" /\ child.st = "running" /\ cpc = "my_exec"

my_exec ==
    /\ ChildIn2 /\ mod # "removed"
    /\ cpc' = "test"
    /\ UNCHANGED <<UNTOUCHED2, pc, status, child, ignores, mod, out, hist>>

\* getname_kernel or kernel_execve fails, and my_exec returns where there is no
\* program to return to; or its code has been removed while it slept.
my_exec_fails ==
    /\ ChildIn2
    /\ \E s \in CoreSignals : Ends(Signaled(s), <<"signal", s>>)
    /\ UNCHANGED <<prog, pc, status, ignores, mod, out>>

kernel_wait ==
    /\ In2("kernel_wait")
    /\ \/ child.st = "zombie" /\ Reap
       \/ child.st = "gone" /\ UNCHANGED <<child, status>>
    /\ pc' = "decode"
    /\ UNCHANGED <<UNTOUCHED2, cpc, ignores, mod, out, hist>>

\* program2.c has its own copy of map_status.
kmap_status(n) == map_status(n)

\* The three tests of the status word, one after the other.
KernelLines ==
    (IF WTERMSIG(status) = 0
     THEN <<KMsg("signal", kmap_status(WEXITSTATUS(status))),
            KMsg("terminated", 0), KMsg("return", WEXITSTATUS(status))>>
     ELSE <<>>)
    \o (IF WTERMSIG(status) # 0
        THEN <<KMsg("signal", kmap_status(WTERMSIG(status)))>>
             \o (IF (status \div 128) % 2 = 1 THEN <<KMsg("core", 0)>> ELSE <<>>)
             \o <<KMsg("terminated", 0), KMsg("return", WTERMSIG(status))>>
        ELSE <<>>)
    \o (IF WTERMSIG(status) = 127
        THEN <<KMsg("signal", kmap_status(WEXITSTATUS(status))), KMsg("return", WEXITSTATUS(status))>>
        ELSE <<>>)

my_fork_end ==
    /\ In2("decode")
    /\ Say(KernelLines)
    /\ pc' = "done"
    /\ UNCHANGED <<UNTOUCHED2, status, cpc, child, ignores, mod, hist>>

\* my_fork goes on in code that rmmod has removed; out of kernel_wait only once
\* the child has ended.
ThreadFaults ==
    /\ prog = "program2" /\ mod = "removed"
    /\ \/ pc \in {"signals", "clone", "decode"}
       \/ pc = "kernel_wait" /\ child.st \in {"zombie", "gone"}
    /\ pc' = "fault"
    /\ UNCHANGED <<UNTOUCHED2, status, cpc, child, ignores, mod, out, hist>>

Parent2 == program2_init \/ SetSignals \/ Clone \/ CloneFails \/ kernel_wait \/ my_fork_end
           \/ ThreadFaults
Child2 == my_exec \/ my_exec_fails
Next2 == Parent2 \/ Child2 \/ program2_exit
=============================================================================
