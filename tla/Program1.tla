------------------------------ MODULE Program1 ------------------------------
(***************************************************************************)
(* program1.c of HW1: main forks, the child executes the test program, the *)
(* parent waits and reports.  When execl fails the child falls through     *)
(* into the loop of the parent, with pid = 0.                              *)
(***************************************************************************)
EXTENDS Child

UNTOUCHED1 == <<prog, ignores, mod>>
In1(l) == prog = "program1" /\ pc = l

\* fork fails: pid is -1, and so is the result of waitpid.
ForkFails ==
    /\ In1("fork")
    /\ pc' = "done"
    /\ Say(<<Msg("parent", "waitpid error", 0)>>)
    /\ UNCHANGED <<UNTOUCHED1, status, cpc, child, news, pending, hist>>

Fork ==
    /\ In1("fork")
    /\ NewChild("execl")
    /\ pc' = "wait"
    /\ UNCHANGED <<UNTOUCHED1, status, news, pending, out, hist>>

ChildIn1(l) == prog = "program1" /\ child.st = "running" /\ cpc = l

Execl ==
    /\ ChildIn1("execl")
    /\ cpc' = "test"
    /\ UNCHANGED <<UNTOUCHED1, pc, status, child, news, pending, out, hist>>

ExeclFails ==
    /\ ChildIn1("execl")
    /\ cpc' = "wait 0"
    /\ UNCHANGED <<UNTOUCHED1, pc, status, child, news, pending, out, hist>>

\* The child waits for its own children, of which there are none, and exits
\* with EXIT_FAILURE.
ChildWaitFails ==
    /\ ChildIn1("wait 0")
    /\ Say(<<Msg("child", "waitpid error", 0)>>)
    /\ Ends(Exited(1), <<"exit", 1>>)
    /\ UNCHANGED <<UNTOUCHED1, pc, status>>

signal_handler ==
    /\ prog = "program1" /\ pc # "done" /\ pending
    /\ Say(<<Msg("parent", "SIGCHLD", 0)>>)
    /\ pending' = FALSE
    /\ UNCHANGED <<UNTOUCHED1, pc, status, cpc, child, news, hist>>

\* Mutant: SIGCHLD is blocked, the handler runs when the parent is done with it.
WaitpidBlocksSigchld ==
    /\ In1("wait")
    /\ \/ child.st = "zombie" /\ Reap /\ UNCHANGED news
       \/ child.st # "zombie" /\ news # 0 /\ status' = news /\ news' = 0 /\ UNCHANGED child
    /\ pc' = "decode"
    /\ UNCHANGED <<UNTOUCHED1, cpc, pending, out, hist>>

\* Mutant: without WUNTRACED.
WaitpidNotStopped ==
    /\ In1("wait")
    /\ \/ child.st = "zombie" /\ Reap /\ UNCHANGED news
       \/ child.st # "zombie" /\ news = Continued /\ status' = news /\ news' = 0 /\ UNCHANGED child
    /\ Say(IF pending THEN <<Msg("parent", "SIGCHLD", 0)>> ELSE <<>>)
    /\ pending' = FALSE
    /\ pc' = "decode"
    /\ UNCHANGED <<UNTOUCHED1, cpc, hist>>

\* waitpid with WUNTRACED and WCONTINUED.  A pending SIGCHLD is handled before
\* the parent goes on; while it blocks, the handler does not end it (SA_RESTART).
Waitpid ==
    /\ In1("wait")
    /\ \/ child.st = "zombie" /\ Reap /\ UNCHANGED news
       \/ child.st # "zombie" /\ news # 0 /\ status' = news /\ news' = 0 /\ UNCHANGED child
    /\ Say(IF pending THEN <<Msg("parent", "SIGCHLD", 0)>> ELSE <<>>)
    /\ pending' = FALSE
    /\ pc' = "decode"
    /\ UNCHANGED <<UNTOUCHED1, cpc, hist>>

\* What is printed for the status; nothing for a child that was continued.
Lines ==
    IF WIFEXITED(status) THEN <<Msg("parent", "exit status", WEXITSTATUS(status))>>
    ELSE IF WIFSIGNALED(status) THEN <<Msg("parent", "signal", map_status(WTERMSIG(status)))>>
    ELSE IF WIFSTOPPED(status) THEN <<Msg("parent", "signal", map_status(WSTOPSIG(status)))>>
    ELSE <<>>

\* Mutant: break after any status.
DecodeBreaks ==
    /\ In1("decode")
    /\ Say(Lines)
    /\ pc' = "done"
    /\ UNCHANGED <<UNTOUCHED1, status, cpc, child, news, pending, hist>>

\* Each line is followed by break.
Decode ==
    /\ In1("decode")
    /\ Say(Lines)
    /\ pc' = IF Lines = <<>> THEN "wait" ELSE "done"
    /\ UNCHANGED <<UNTOUCHED1, status, cpc, child, news, pending, hist>>

Parent1 == Fork \/ ForkFails \/ Waitpid \/ Decode
Child1 == Execl \/ ExeclFails \/ ChildWaitFails
Next1 == Parent1 \/ Child1 \/ signal_handler
=============================================================================
