------------------------------- MODULE Child --------------------------------
(***************************************************************************)
(* What program1 and program2 of HW1 have in common: a parent that forks a *)
(* child to run a test program and learns from a status word what became   *)
(* of it.  The kernel's side is external: how a child exits, is killed,    *)
(* stopped and continued, and what wait finds.                             *)
(***************************************************************************)
EXTENDS Integers, Sequences

CONSTANTS ExitCodes,     \* what test programs return
          TermSignals,   \* signals that end a test program,
          CoreSignals,   \* those that also dump core,
          StopSignals,   \* signals that stop it
          MaxStops       \* bound: how often a test program is stopped

SIGKILL == 9

ASSUME ChildAssumption ==
    /\ ExitCodes \subseteq 0..255
    /\ TermSignals \subseteq 1..126 /\ CoreSignals \subseteq TermSignals
    /\ StopSignals \subseteq 1..126 /\ StopSignals \cap TermSignals = {}
    /\ MaxStops \in Nat

VARIABLES
    prog,     \* the program that runs: "program1" or "program2"
    pc,       \* where the parent is: main of program1, my_fork of program2
    status,   \* the parent's variable status
    cpc,      \* where the child is: in the parent's program, or in the test
    child,    \* the kernel's view of the child, and its status word
    news,     \* a stop or a continuation that wait has not reported
    ignores,  \* signals are ignored, SIGCHLD among them
    pending,  \* SIGCHLD is pending in the parent
    mod,      \* program2: whether its module is loaded
    out,      \* the messages
    hist      \* history: what happened to the child

vars == <<prog, pc, status, cpc, child, news, ignores, pending, mod, out, hist>>

Init0(p) ==
    /\ prog = p
    /\ pc = IF p = "program1" THEN "fork" ELSE "init"
    /\ cpc = "none" /\ child = [st |-> "none", word |-> 0, stops |-> 0]
    /\ status = 0 /\ news = 0 /\ pending = FALSE
    /\ ignores = (p = "program2")
    /\ mod = "out" /\ out = <<>> /\ hist = {}

Say(msgs) == out' = out \o msgs
Msg(by, what, n) == [by |-> by, what |-> what, n |-> n]

\* map_status has a name for each of the signals 1 to 31, here their number.
UNKNOWN == 0
map_status(n) == IF n \in 1..31 THEN n ELSE UNKNOWN

-----------------------------------------------------------------------------
(* The status word, and the macros of sys/wait.h.                          *)

Exited(n) == n * 256
Signaled(s) == IF s \in CoreSignals THEN s + 128 ELSE s
Stopped(s) == s * 256 + 127
Continued == 65535

WTERMSIG(w) == w % 128
WEXITSTATUS(w) == (w \div 256) % 256
WSTOPSIG(w) == WEXITSTATUS(w)
WIFEXITED(w) == WTERMSIG(w) = 0
WIFSTOPPED(w) == w % 256 = 127
WIFSIGNALED(w) == WTERMSIG(w) \notin {0, 127}

-----------------------------------------------------------------------------
(* The child in the kernel.                                                *)

\* fork and kernel_clone: the child goes on at l, with the parent's signals.
NewChild(l) ==
    /\ child' = [child EXCEPT !.st = "running"]
    /\ cpc' = l

\* The child ends with status word w.  With SIGCHLD ignored there is no zombie.
Ends(w, event) ==
    /\ child' = [child EXCEPT !.st = IF ignores THEN "gone" ELSE "zombie", !.word = w]
    /\ cpc' = "ended"
    /\ news' = 0
    /\ pending' = (pending \/ ~ignores)
    /\ hist' = hist \cup {event}

InTest == child.st = "running" /\ cpc = "test"

TestExits(n) ==
    /\ InTest
    /\ Ends(Exited(n), <<"exit", n>>)
    /\ UNCHANGED <<prog, pc, status, ignores, mod, out>>

\* A signal that the test program raises or somebody sends.
TestKilled(s) ==
    /\ \/ InTest /\ (~ignores \/ s = SIGKILL)
       \/ child.st = "stopped" /\ s = SIGKILL
    /\ Ends(Signaled(s), <<"signal", s>>)
    /\ UNCHANGED <<prog, pc, status, ignores, mod, out>>

TestStops(s) ==
    /\ InTest /\ child.stops < MaxStops
    /\ child' = [child EXCEPT !.st = "stopped", !.stops = @ + 1]
    /\ news' = Stopped(s)
    /\ pending' = (pending \/ ~ignores)
    /\ hist' = hist \cup {<<"stop", s>>}
    /\ UNCHANGED <<prog, pc, status, cpc, ignores, mod, out>>

\* SIGCONT, from somebody else; a stop that was not reported yet never will be.
TestContinues ==
    /\ child.st = "stopped"
    /\ child' = [child EXCEPT !.st = "running"]
    /\ news' = Continued
    /\ pending' = (pending \/ ~ignores)
    /\ UNCHANGED <<prog, pc, status, cpc, ignores, mod, out, hist>>

TestEnds == \/ \E n \in ExitCodes : TestExits(n)
            \/ \E s \in TermSignals : TestKilled(s)

TestStep ==
    \/ TestEnds
    \/ \E s \in StopSignals : TestStops(s)
    \/ TestContinues

\* The parent takes the status word of a child that has ended.
Reap == child' = [child EXCEPT !.st = "reaped"] /\ status' = child.word
=============================================================================
