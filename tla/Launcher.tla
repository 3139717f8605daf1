------------------------------ MODULE Launcher ------------------------------
(***************************************************************************)
(* program1 or program2 with its child and the test program that the child *)
(* executes, and what their messages may say.                              *)
(***************************************************************************)
EXTENDS Program1, Program2

Init == \E p \in {"program1", "program2"} : Init0(p)

Next == Next1 \/ Next2 \/ TestStep

\* The parent, its child before it executes the test program and the signal
\* handler run; the test program ends at some time unless it is stopped, as the
\* ones of HW1 do.
Fairness == /\ WF_vars(Parent1) /\ WF_vars(Child1) /\ WF_vars(signal_handler)
            /\ WF_vars(Parent2) /\ WF_vars(Child2) /\ WF_vars(InTest /\ TestEnds)

Spec == Init /\ [][Next]_vars
FairSpec == Spec /\ Fairness

-----------------------------------------------------------------------------
(* Properties.                                                             *)

Words == {0, UNSET, Continued} \cup {Exited(n) : n \in ExitCodes \cup {1}}
         \cup {Signaled(s) : s \in TermSignals} \cup {Stopped(s) : s \in StopSignals}

\* The variables have their types.
TypeOK ==
    /\ pc \in {"fork", "init", "signals", "clone", "wait", "kernel_wait", "decode", "done", "fault"}
    /\ cpc \in {"none", "execl", "wait 0", "my_exec", "test", "ended"}
    /\ child.st \in {"none", "running", "stopped", "zombie", "gone", "reaped"}
    /\ child.word \in Words /\ status \in Words /\ news \in Words
    /\ child.stops \in 0..MaxStops
    /\ mod \in {"out", "failed", "loaded", "removed"}

Said == {out[i] : i \in DOMAIN out}

\* What the parent reports happened to the child, whatever else the child did
\* between two calls of waitpid and although status words of exits, signals,
\* stops and continuations overlap.  A child whose execl failed reports nothing.
ReportIsTrue ==
    \A m \in Said :
        /\ m.what = "exit status" => <<"exit", m.n>> \in hist
        /\ m.what = "signal" /\ prog = "program1" =>
              \E h \in hist : h[1] \in {"signal", "stop"} /\ map_status(h[2]) = m.n
        /\ m.what = "return" =>
              \E h \in hist : h[1] \in {"signal", "exit"} /\ h[2] = m.n
        /\ m.what = "core" => \E s \in CoreSignals : <<"signal", s>> \in hist
        /\ m.what = "terminated" => \E h \in hist : h[1] \in {"signal", "exit"}
        /\ m.by = "child" => m.what = "waitpid error"

\* The handler of SIGCHLD has run before program1 reports what waitpid returned.
SigchldFirst ==
    \A i \in DOMAIN out : out[i].what \in {"exit status", "signal"} /\ prog = "program1" =>
        \E j \in 1..(i - 1) : out[j].what = "SIGCHLD"

\* A parent that ends leaves no zombie behind and no child that runs, unless
\* there was none, it reported a stop, or its module was removed.
DoneMeansReaped ==
    pc = "done" => \/ child.st \in {"none", "reaped"}
                   \/ \E s \in StopSignals, m \in Said : m.what = "signal" /\ m.n = map_status(s)

\* program1 ends whatever becomes of its child; program2 once its child has
\* ended, without or with a fault.
LaunchEnds == (prog = "program1" \/ child.st \in {"zombie", "gone"}) ~> pc \in {"done", "fault"}

\* ReadMe.txt of HW1: "The messages are between the messages 'module init' and
\* 'module exit'".
MessagesBetween ==
    \A i, j \in DOMAIN out : out[i].what = "Module_exit" => j <= i /\ pc # "fault"

\* program2.c: "The signal could be caught and related message should be printed
\* out in kernel log": a signal that is printed is one that the child got.
SignalIsReal ==
    \A m \in Said : m.what = "signal" /\ m.n # UNKNOWN =>
        \E h \in hist : h[1] \in {"signal", "stop"} /\ h[2] = m.n
=============================================================================
