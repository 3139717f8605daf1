----------------------------- MODULE HW1Proofs -----------------------------
(***************************************************************************)
(* Proofs about the programs of HW1.  program1 and program2: what the      *)
(* parent reports is what happened to the child, for any exit codes and    *)
(* signals that a status word can hold.  pstree: what is read of /proc     *)
(* while processes come and go makes one tree, in which those that exist   *)
(* all the time have their place, and what compaction leaves out of the    *)
(* output is counted in a line of it.                                      *)
(***************************************************************************)
EXTENDS Launcher, Pstree, Counting

Msgs == [by : {"parent", "child"},
         what : {"waitpid error", "SIGCHLD", "exit status", "signal", "Module_init",
                 "Module_exit", "terminated", "return", "core"},
         n : Int]

Types ==
    /\ TypeOK
    /\ prog \in {"program1", "program2"} /\ out \in Seq(Msgs)
    /\ child \in [st : {"none", "running", "stopped", "zombie", "gone", "reaped"},
                  word : Words, stops : 0..MaxStops]
    /\ ignores \in BOOLEAN /\ pending \in BOOLEAN

\* A status word of a child that has ended, and one of a child that was stopped
\* or continued.
Ended(w) ==
    \/ \E n \in ExitCodes \cup {1} : w = Exited(n) /\ <<"exit", n>> \in hist
    \/ \E s \in TermSignals : w = Signaled(s) /\ <<"signal", s>> \in hist
Changed(w) ==
    \/ w = Continued
    \/ \E s \in StopSignals : w = Stopped(s) /\ <<"stop", s>> \in hist

\* Which program's lines are reached, and that neither has a child before it
\* asks for one, or one that ignores signals.
Places ==
    /\ prog = "program1" => pc \in {"fork", "wait", "decode", "done"}
    /\ prog = "program2" => pc \in {"init", "signals", "clone", "kernel_wait", "decode", "done", "fault"}
    /\ pc \in {"fork", "init", "signals", "clone"} => child.st = "none"
    /\ pc \in {"fork", "clone", "kernel_wait", "wait", "decode"} => ~ignores
    /\ child.st # "none" => ~ignores
    /\ child.st # "gone"
    /\ child.st \in {"running", "stopped"} /\ prog = "program2" => pc \in {"kernel_wait", "fault"}

\* Where the parent gets its status words from.
StatusWords ==
    /\ child.st \in {"zombie", "reaped"} => Ended(child.word)
    /\ news # 0 => Changed(news)
    /\ pc = "decode" => \/ Ended(status) /\ child.st = "reaped"
                        \/ Changed(status) /\ prog = "program1"

HandlerRan == \E i \in DOMAIN out : out[i].what = "SIGCHLD"

\* What waitpid can find has raised SIGCHLD, and it does not return while the
\* handler has still to run.
Handled ==
    prog = "program1" =>
        /\ child.st = "zombie" \/ news # 0 => pending \/ HandlerRan
        /\ pc = "decode" => HandlerRan

IInv == Types /\ Places /\ StatusWords /\ Handled /\ ReportIsTrue /\ SigchldFirst /\ DoneMeansReaped

-----------------------------------------------------------------------------
(* Status words.                                                           *)

\* The macros of sys/wait.h tell an exit,
LEMMA ExitWord ==
  ASSUME NEW n \in 0..255
  PROVE  /\ WIFEXITED(Exited(n)) /\ WEXITSTATUS(Exited(n)) = n /\ WTERMSIG(Exited(n)) = 0
         /\ Exited(n) \in Nat
  <1>1. (n * 256) % 128 = 0 /\ (n * 256) \div 256 = n /\ n % 256 = n
    OBVIOUS
  <1> QED
    BY <1>1 DEF WIFEXITED, WTERMSIG, WEXITSTATUS, Exited

\* a signal that ends the child, and whether there is a core dump,
LEMMA SignalWord ==
  ASSUME NEW s \in TermSignals
  PROVE  /\ ~WIFEXITED(Signaled(s)) /\ WIFSIGNALED(Signaled(s)) /\ WTERMSIG(Signaled(s)) = s
         /\ (Signaled(s) \div 128) % 2 = 1 => s \in CoreSignals
         /\ s \in 1..126 /\ Signaled(s) \in Nat
  <1>1. s \in 1..126
    BY ChildAssumption
  <1>2. s % 128 = s /\ (s + 128) % 128 = s /\ s \div 128 = 0 /\ 0 % 2 = 0
    BY <1>1
  <1>3. CASE s \in CoreSignals
    BY <1>1, <1>2, <1>3 DEF WIFEXITED, WIFSIGNALED, WTERMSIG, Signaled
  <1>4. CASE s \notin CoreSignals
    BY <1>1, <1>2, <1>4 DEF WIFEXITED, WIFSIGNALED, WTERMSIG, Signaled
  <1> QED
    BY <1>3, <1>4

\* a stop, and a continuation, although both overlap with the words above.
LEMMA ChangeWord ==
  /\ \A s \in StopSignals :
        /\ ~WIFEXITED(Stopped(s)) /\ ~WIFSIGNALED(Stopped(s)) /\ WIFSTOPPED(Stopped(s))
        /\ WSTOPSIG(Stopped(s)) = s /\ s \in 1..126 /\ Stopped(s) \in Nat
  /\ ~WIFEXITED(Continued) /\ ~WIFSIGNALED(Continued) /\ ~WIFSTOPPED(Continued)
  <1>1. ASSUME NEW s \in StopSignals
        PROVE  /\ ~WIFEXITED(Stopped(s)) /\ ~WIFSIGNALED(Stopped(s)) /\ WIFSTOPPED(Stopped(s))
               /\ WSTOPSIG(Stopped(s)) = s /\ s \in 1..126 /\ Stopped(s) \in Nat
    <2>1. s \in 1..126
      BY ChildAssumption
    <2>2. /\ (s * 256 + 127) % 128 = 127 /\ (s * 256 + 127) % 256 = 127
          /\ (s * 256 + 127) \div 256 = s /\ s % 256 = s
      BY <2>1
    <2> QED
      BY <2>1, <2>2 DEF WIFEXITED, WIFSIGNALED, WIFSTOPPED, WSTOPSIG, WEXITSTATUS, WTERMSIG, Stopped
  <1>2. 65535 % 128 = 127 /\ 65535 % 256 = 255
    OBVIOUS
  <1>3. ~WIFEXITED(Continued) /\ ~WIFSIGNALED(Continued) /\ ~WIFSTOPPED(Continued)
    BY <1>2 DEF WIFEXITED, WIFSIGNALED, WIFSTOPPED, WTERMSIG, Continued
  <1> QED
    BY <1>1, <1>3

-----------------------------------------------------------------------------
(* The messages.                                                           *)

\* printf and printk add to what has been said.
LEMMA Saying ==
  ASSUME out \in Seq(Msgs), NEW ms \in Seq(Msgs), Say(ms)
  PROVE  /\ out' \in Seq(Msgs) /\ Len(out') = Len(out) + Len(ms)
         /\ \A i \in 1..Len(out) : out'[i] = out[i]
         /\ \A i \in 1..Len(ms) : out'[Len(out) + i] = ms[i]
         /\ \A i \in 1..Len(out') : i \in 1..Len(out) \/ i - Len(out) \in 1..Len(ms)
         /\ Said \subseteq Said'
         /\ Said' \subseteq Said \cup {ms[i] : i \in 1..Len(ms)}
         /\ HandlerRan => HandlerRan'
  <1>1. out' = out \o ms
    BY DEF Say
  <1>2. out' \in Seq(Msgs) /\ Len(out') = Len(out) + Len(ms) /\ Len(out) \in Nat /\ Len(ms) \in Nat
    BY <1>1
  <1>3. \A i \in 1..Len(out) : out'[i] = out[i]
    BY <1>1
  <1>4. \A i \in 1..Len(ms) : out'[Len(out) + i] = ms[i]
    BY <1>1
  <1>5. \A i \in 1..Len(out') : i \in 1..Len(out) \/ i - Len(out) \in 1..Len(ms)
    BY <1>2
  <1>6. DOMAIN out = 1..Len(out) /\ DOMAIN out' = 1..Len(out')
    BY <1>2
  <1>7. Said \subseteq Said'
    BY <1>2, <1>3, <1>6 DEF Said
  <1>8. ASSUME NEW i \in 1..Len(out') PROVE out'[i] \in Said \cup {ms[j] : j \in 1..Len(ms)}
    <2>1. CASE i \in 1..Len(out)
      BY <1>3, <1>6, <2>1 DEF Said
    <2>2. CASE i - Len(out) \in 1..Len(ms)
      <3>1. Len(out) + (i - Len(out)) = i
        BY <1>2
      <3>2. out'[i] = ms[i - Len(out)]
        BY <1>4, <2>2, <3>1
      <3> QED
        BY <2>2, <3>2
    <2> QED
      BY <1>5, <2>1, <2>2
  <1>9. Said' \subseteq Said \cup {ms[j] : j \in 1..Len(ms)}
    BY <1>6, <1>8 DEF Said
  <1>10. HandlerRan => HandlerRan'
    BY <1>2, <1>3, <1>6 DEF HandlerRan
  <1> QED
    BY <1>2, <1>3, <1>4, <1>5, <1>7, <1>9, <1>10

MsgTrue(m) ==
    /\ m.what = "exit status" => <<"exit", m.n>> \in hist
    /\ m.what = "signal" /\ prog = "program1" =>
          \E h \in hist : h[1] \in {"signal", "stop"} /\ map_status(h[2]) = m.n
    /\ m.what = "return" => \E h \in hist : h[1] \in {"signal", "exit"} /\ h[2] = m.n
    /\ m.what = "core" => \E s \in CoreSignals : <<"signal", s>> \in hist
    /\ m.what = "terminated" => \E h \in hist : h[1] \in {"signal", "exit"}
    /\ m.by = "child" => m.what = "waitpid error"

Report(m) == m.what \in {"exit status", "signal"} /\ prog = "program1"

\* What holds of the messages after more of them.
Spoken == /\ out' \in Seq(Msgs) /\ ReportIsTrue' /\ SigchldFirst'
          /\ Said \subseteq Said' /\ (HandlerRan => HandlerRan')

\* More true messages, of which none reports a status before the handler ran.
LEMMA Speaks ==
  ASSUME IInv, prog' = prog, hist \subseteq hist', NEW ms \in Seq(Msgs), Say(ms),
         \A i \in 1..Len(ms) : MsgTrue(ms[i])' /\ (Report(ms[i]) => HandlerRan)
  PROVE  Spoken
  <1>0. out \in Seq(Msgs) /\ Len(out) \in Nat /\ DOMAIN out = 1..Len(out)
    BY DEF IInv, Types
  <1>1. /\ out' \in Seq(Msgs) /\ Len(out') = Len(out) + Len(ms)
        /\ \A i \in 1..Len(out) : out'[i] = out[i]
        /\ \A i \in 1..Len(ms) : out'[Len(out) + i] = ms[i]
        /\ \A i \in 1..Len(out') : i \in 1..Len(out) \/ i - Len(out) \in 1..Len(ms)
        /\ Said \subseteq Said'
        /\ Said' \subseteq Said \cup {ms[i] : i \in 1..Len(ms)}
        /\ HandlerRan => HandlerRan'
    BY <1>0, Saying
  <1>2. DOMAIN out' = 1..Len(out') /\ Len(ms) \in Nat
    BY <1>1
  <1>3. ReportIsTrue'
    <2>1. \A m \in Said : MsgTrue(m)
      BY DEF IInv, ReportIsTrue, MsgTrue
    <2>2. ASSUME NEW m, MsgTrue(m) PROVE MsgTrue(m)'
      BY <2>2 DEF MsgTrue
    <2>3. \A m \in Said' : MsgTrue(m)'
      BY <1>1, <2>1, <2>2
    <2> QED
      BY <2>3 DEF ReportIsTrue, MsgTrue
  <1>4. SigchldFirst'
    <2>1. SUFFICES ASSUME NEW i \in 1..Len(out'), Report(out'[i])
                   PROVE  \E j \in 1..(i - 1) : out'[j].what = "SIGCHLD"
      BY <1>2 DEF SigchldFirst, Report
    <2>2. CASE i \in 1..Len(out)
      <3>1. Report(out[i])
        BY <1>1, <2>1, <2>2
      <3>2. PICK j \in 1..(i - 1) : out[j].what = "SIGCHLD"
        BY <1>0, <2>2, <3>1 DEF IInv, SigchldFirst, Report
      <3>3. j \in 1..Len(out)
        BY <1>0, <2>2
      <3> QED
        BY <1>1, <3>2, <3>3
    <2>3. CASE i - Len(out) \in 1..Len(ms)
      <3>1. Len(out) + (i - Len(out)) = i
        BY <1>0
      <3>2. out'[i] = ms[i - Len(out)]
        BY <1>1, <2>3, <3>1
      <3>3. HandlerRan
        BY <2>1, <2>3, <3>2
      <3>4. PICK j \in 1..Len(out) : out[j].what = "SIGCHLD"
        BY <1>0, <3>3 DEF HandlerRan
      <3>5. j \in 1..(i - 1)
        BY <1>0, <2>3
      <3> QED
        BY <1>1, <3>4, <3>5
    <2> QED
      BY <1>1, <2>2, <2>3
  <1> QED
    BY <1>1, <1>3, <1>4 DEF Spoken

\* No message.
LEMMA Silent ==
  ASSUME IInv, prog' = prog, hist \subseteq hist', out' = out
  PROVE  Spoken
  <1>1. out \in Seq(Msgs)
    BY DEF IInv, Types
  <1>2. <<>> \in Seq(Msgs) /\ Len(<<>>) = 0 /\ out \o <<>> = out
    BY <1>1
  <1>3. Say(<<>>) /\ 1..Len(<<>>) = {}
    BY <1>2 DEF Say
  <1> QED
    BY <1>2, <1>3, Speaks

\* One message.
LEMMA SpeaksOnce ==
  ASSUME IInv, prog' = prog, hist \subseteq hist', NEW m \in Msgs, Say(<<m>>),
         MsgTrue(m)', Report(m) => HandlerRan
  PROVE  Spoken
  <1>1. <<m>> \in Seq(Msgs) /\ Len(<<m>>) = 1 /\ \A i \in 1..1 : <<m>>[i] = m
    OBVIOUS
  <1> QED
    BY <1>1, Speaks

\* What was a word of what happened stays one.
LEMMA WordsStay ==
  ASSUME hist \subseteq hist', NEW w
  PROVE  (Ended(w) => Ended(w)') /\ (Changed(w) => Changed(w)')
  BY DEF Ended, Changed

\* A parent that is done has no child that could still end.
LEMMA DoneStays ==
  ASSUME DoneMeansReaped, Said \subseteq Said', pc' = pc,
         child'.st = child.st \/ child.st \notin {"none", "reaped"}
  PROVE  DoneMeansReaped'
  BY DEF DoneMeansReaped

\* The words that are there.
LEMMA WordTypes ==
  /\ \A n \in ExitCodes \cup {1} : Exited(n) \in Words /\ n \in 0..255
  /\ \A s \in TermSignals : Signaled(s) \in Words
  /\ \A s \in StopSignals : Stopped(s) \in Words
  /\ 0 \in Words /\ UNSET \in Words /\ Continued \in Words
  BY ChildAssumption DEF Words

\* The child ends: exit, a signal, or my_exec that fails.
LEMMA EndsStep ==
  ASSUME IInv, NEW w \in Words, NEW e, Ends(w, e), Ended(w)', child.st \in {"running", "stopped"},
         UNCHANGED <<prog, pc, status, ignores, mod>>, Spoken
  PROVE  IInv'
  <1>1. ~ignores /\ hist \subseteq hist'
    BY DEF IInv, Places, Ends
  <1>2. /\ child' = [child EXCEPT !.st = "zombie", !.word = w] /\ cpc' = "ended"
        /\ news' = 0 /\ pending' = TRUE
    BY <1>1 DEF Ends
  <1>3. /\ child \in [st : {"none", "running", "stopped", "zombie", "gone", "reaped"},
                      word : Words, stops : 0..MaxStops]
        /\ 0 \in Words
    BY WordTypes DEF IInv, Types
  <1>4. /\ child'.st = "zombie" /\ child'.word = w /\ child'.stops = child.stops
        /\ child' \in [st : {"none", "running", "stopped", "zombie", "gone", "reaped"},
                       word : Words, stops : 0..MaxStops]
    BY <1>2, <1>3
  <1>5. Types'
    BY <1>2, <1>3, <1>4 DEF IInv, Types, TypeOK, Spoken
  <1>6. Places'
    BY <1>1, <1>4 DEF IInv, Places
  <1>7. StatusWords'
    <2>1. pc = "decode" => Changed(status) /\ prog = "program1"
      BY DEF IInv, StatusWords
    <2> QED
      BY <1>1, <1>2, <1>4, <2>1, WordsStay DEF StatusWords
  <1>8. Handled'
    BY <1>2 DEF IInv, Handled, Spoken
  <1>9. DoneMeansReaped'
    BY <1>4, DoneStays DEF IInv, Spoken
  <1> QED
    BY <1>5, <1>6, <1>7, <1>8, <1>9 DEF IInv, Spoken

\* What the test program does, and what is done to it.
LEMMA TestSteps ==
  ASSUME IInv, TestStep
  PROVE  IInv'
  <1>1. ASSUME NEW n \in ExitCodes, TestExits(n) PROVE IInv'
    <2>1. /\ Ends(Exited(n), <<"exit", n>>) /\ child.st = "running"
          /\ UNCHANGED <<prog, pc, status, ignores, mod, out>>
      BY <1>1 DEF TestExits, InTest
    <2>2. hist \subseteq hist' /\ Exited(n) \in Words /\ Ended(Exited(n))'
      BY <2>1, WordTypes DEF Ends, Ended
    <2> QED
      BY <2>1, <2>2, Silent, EndsStep
  <1>2. ASSUME NEW s \in TermSignals, TestKilled(s) PROVE IInv'
    <2>1. /\ Ends(Signaled(s), <<"signal", s>>) /\ child.st \in {"running", "stopped"}
          /\ UNCHANGED <<prog, pc, status, ignores, mod, out>>
      BY <1>2 DEF TestKilled, InTest
    <2>2. hist \subseteq hist' /\ Signaled(s) \in Words /\ Ended(Signaled(s))'
      BY <2>1, WordTypes DEF Ends, Ended
    <2> QED
      BY <2>1, <2>2, Silent, EndsStep
  <1>3. ASSUME NEW st \in {"running", "stopped"}, NEW k \in 0..MaxStops, NEW w \in Words,
               child.st \in {"running", "stopped"}, Changed(w)', hist \subseteq hist',
               child' = [child EXCEPT !.st = st, !.stops = k],
               news' = w, pending' = (pending \/ ~ignores),
               UNCHANGED <<prog, pc, status, cpc, ignores, mod, out>>
        PROVE  IInv'
    <2>1. Spoken
      BY <1>3, Silent
    <2>2. child \in [st : {"none", "running", "stopped", "zombie", "gone", "reaped"},
                     word : Words, stops : 0..MaxStops]
      BY DEF IInv, Types
    <2>3. /\ child'.st = st /\ child'.stops = k
          /\ child' \in [st : {"none", "running", "stopped", "zombie", "gone", "reaped"},
                         word : Words, stops : 0..MaxStops]
      BY <1>3, <2>2
    <2>4. ~ignores /\ pending' = TRUE
      BY <1>3 DEF IInv, Places
    <2>5. Types'
      BY <1>3, <2>1, <2>3, <2>4 DEF IInv, Types, TypeOK, Spoken
    <2>6. Places'
      BY <1>3, <2>3, <2>4 DEF IInv, Places
    <2>7. StatusWords'
      <3>1. pc = "decode" => Changed(status) /\ prog = "program1"
        BY <1>3 DEF IInv, StatusWords
      <3> QED
        BY <1>3, <2>3, <3>1, WordsStay DEF StatusWords
    <2>8. Handled'
      BY <1>3, <2>1, <2>4 DEF IInv, Handled, Spoken
    <2>9. DoneMeansReaped'
      BY <1>3, <2>1, DoneStays DEF IInv, Spoken
    <2> QED
      BY <2>1, <2>5, <2>6, <2>7, <2>8, <2>9 DEF IInv, Spoken
  <1>4. ASSUME NEW s \in StopSignals, TestStops(s) PROVE IInv'
    <2>1. /\ child.st = "running" /\ child.stops < MaxStops
          /\ child' = [child EXCEPT !.st = "stopped", !.stops = @ + 1]
          /\ news' = Stopped(s) /\ hist' = hist \cup {<<"stop", s>>}
          /\ pending' = (pending \/ ~ignores)
          /\ UNCHANGED <<prog, pc, status, cpc, ignores, mod, out>>
      BY <1>4 DEF TestStops, InTest
    <2>2. child.stops + 1 \in 0..MaxStops
      <3>1. child.stops \in 0..MaxStops /\ MaxStops \in Nat
        BY ChildAssumption DEF IInv, Types, TypeOK
      <3> QED
        BY <2>1, <3>1
    <2>3. child' = [child EXCEPT !.st = "stopped", !.stops = child.stops + 1]
      BY <2>1 DEF IInv, Types
    <2>4. Stopped(s) \in Words /\ Changed(Stopped(s))' /\ hist \subseteq hist'
      BY <2>1, WordTypes DEF Changed
    <2> QED
      BY <1>3, <2>1, <2>2, <2>3, <2>4
  <1>5. ASSUME TestContinues PROVE IInv'
    <2>1. /\ child.st = "stopped" /\ child' = [child EXCEPT !.st = "running"]
          /\ news' = Continued /\ pending' = (pending \/ ~ignores)
          /\ UNCHANGED <<prog, pc, status, cpc, ignores, mod, out, hist>>
      BY <1>5 DEF TestContinues
    <2>2. child' = [child EXCEPT !.st = "running", !.stops = child.stops]
      BY <2>1 DEF IInv, Types
    <2>3. child.stops \in 0..MaxStops
      BY DEF IInv, Types, TypeOK
    <2>4. Continued \in Words /\ Changed(Continued)'
      BY WordTypes DEF Changed
    <2> QED
      BY <1>3, <2>1, <2>2, <2>3, <2>4
  <1> QED
    BY <1>1, <1>2, <1>4, <1>5 DEF TestStep, TestEnds

\* The child of program1 before the test program runs.
LEMMA ChildSteps ==
  ASSUME IInv, Child1 \/ Child2
  PROVE  IInv'
  <1>1. CASE Execl \/ ExeclFails \/ my_exec
    <2>1. /\ UNCHANGED <<prog, ignores, mod, pc, status, child, news, pending, out, hist>>
          /\ cpc' \in {"test", "wait 0"}
      BY <1>1 DEF Execl, ExeclFails, my_exec, UNTOUCHED1, UNTOUCHED2
    <2>2. Spoken
      BY <2>1, Silent
    <2>3. Types'
      BY <2>1 DEF IInv, Types, TypeOK
    <2>4. Places'
      BY <2>1 DEF IInv, Places
    <2>5. StatusWords'
      BY <2>1, WordsStay DEF IInv, StatusWords
    <2>6. Handled'
      BY <2>1, <2>2 DEF IInv, Handled, Spoken
    <2>7. DoneMeansReaped'
      BY <2>1, <2>2, DoneStays DEF IInv, Spoken
    <2> QED
      BY <2>2, <2>3, <2>4, <2>5, <2>6, <2>7 DEF IInv, Spoken
  <1>2. CASE ChildWaitFails
    <2> DEFINE m == Msg("child", "waitpid error", 0)
    <2>1. /\ Say(<<m>>) /\ Ends(Exited(1), <<"exit", 1>>) /\ child.st = "running"
          /\ UNCHANGED <<prog, ignores, mod, pc, status>>
      BY <1>2 DEF ChildWaitFails, ChildIn1, UNTOUCHED1
    <2>2. hist \subseteq hist' /\ Exited(1) \in Words /\ Ended(Exited(1))'
      BY <2>1, WordTypes DEF Ends, Ended
    <2>3. m \in Msgs /\ MsgTrue(m)' /\ ~Report(m)
      BY DEF m, Msg, Msgs, MsgTrue, Report
    <2> HIDE DEF m
    <2>4. Spoken
      BY <2>1, <2>2, <2>3, SpeaksOnce
    <2> QED
      BY <2>1, <2>2, <2>4, EndsStep
  <1>3. CASE my_exec_fails
    <2>1. PICK s \in CoreSignals : Ends(Signaled(s), <<"signal", s>>)
      BY <1>3 DEF my_exec_fails
    <2>2. s \in TermSignals
      BY ChildAssumption
    <2>3. child.st = "running" /\ UNCHANGED <<prog, pc, status, ignores, mod, out>>
      BY <1>3 DEF my_exec_fails, ChildIn2
    <2>4. hist \subseteq hist' /\ Signaled(s) \in Words /\ Ended(Signaled(s))'
      BY <2>1, <2>2, WordTypes DEF Ends, Ended
    <2> QED
      BY <2>1, <2>3, <2>4, Silent, EndsStep
  <1> QED
    BY <1>1, <1>2, <1>3 DEF Child1, Child2

\* A message that is printed has been said.
LEMMA SaidNow ==
  ASSUME out \in Seq(Msgs), NEW m \in Msgs, Say(<<m>>)
  PROVE  m \in Said'
  <1>1. <<m>> \in Seq(Msgs) /\ Len(<<m>>) = 1 /\ <<m>>[1] = m /\ 1 \in 1..Len(<<m>>)
    OBVIOUS
  <1>2. /\ out' \in Seq(Msgs) /\ Len(out') = Len(out) + Len(<<m>>)
        /\ \A i \in 1..Len(<<m>>) : out'[Len(out) + i] = <<m>>[i]
    BY <1>1, Saying
  <1>3. out'[Len(out) + 1] = m /\ Len(out) + 1 \in DOMAIN out'
    BY <1>1, <1>2
  <1> QED
    BY <1>3 DEF Said

\* What the handler prints is that it ran.
LEMMA HandlerSays ==
  ASSUME out \in Seq(Msgs), NEW m \in Msgs, Say(<<m>>), m.what = "SIGCHLD"
  PROVE  HandlerRan'
  BY SaidNow DEF Said, HandlerRan

\* waitpid returns: a child that ended is reaped, and SIGCHLD has been handled.
LEMMA WaitpidStep ==
  ASSUME IInv, Waitpid
  PROVE  IInv'
  <1>0. /\ out \in Seq(Msgs) /\ pending \in BOOLEAN /\ news \in Words /\ 0 \in Words
        /\ child \in [st : {"none", "running", "stopped", "zombie", "gone", "reaped"},
                      word : Words, stops : 0..MaxStops]
        /\ child.stops \in 0..MaxStops
    BY WordTypes DEF IInv, Types, TypeOK
  <1>1. /\ prog = "program1" /\ pc = "wait" /\ pc' = "decode" /\ pending' = FALSE
        /\ Say(IF pending THEN <<Msg("parent", "SIGCHLD", 0)>> ELSE <<>>)
        /\ child.st = "zombie" \/ news # 0
        /\ \/ child.st = "zombie" /\ Reap /\ UNCHANGED news
           \/ child.st # "zombie" /\ news # 0 /\ status' = news /\ news' = 0 /\ UNCHANGED child
        /\ UNCHANGED <<prog, ignores, mod, cpc, hist>>
    BY DEF Waitpid, In1, UNTOUCHED1
  <1>2. pending \/ HandlerRan
    BY <1>1 DEF IInv, Handled
  <1>3. Spoken /\ HandlerRan'
    <2>1. CASE pending
      <3> DEFINE m == Msg("parent", "SIGCHLD", 0)
      <3>1. Say(<<m>>)
        BY <1>1, <2>1
      <3>2. m \in Msgs /\ MsgTrue(m)' /\ ~Report(m) /\ m.what = "SIGCHLD"
        BY DEF m, Msg, Msgs, MsgTrue, Report
      <3> HIDE DEF m
      <3> QED
        BY <1>0, <1>1, <3>1, <3>2, SpeaksOnce, HandlerSays
    <2>2. CASE ~pending
      <3>1. out \o <<>> = out
        BY <1>0
      <3>2. out' = out
        BY <1>1, <2>2, <3>1 DEF Say
      <3>3. Spoken
        BY <1>1, <3>2, Silent
      <3> QED
        BY <1>2, <2>2, <3>3 DEF Spoken
    <2> QED
      BY <2>1, <2>2
  <1>4. /\ child' \in [st : {"none", "running", "stopped", "zombie", "gone", "reaped"},
                       word : Words, stops : 0..MaxStops]
        /\ child'.stops = child.stops
        /\ news' \in {news, 0} /\ child'.st # "gone"
        /\ child'.st = "zombie" => child'.st = child.st /\ child'.word = child.word
        /\ child'.st = "reaped" => child'.word = child.word
    <2>1. CASE child.st = "zombie" /\ Reap /\ UNCHANGED news
      BY <1>0, <2>1 DEF Reap
    <2>2. CASE child.st # "zombie" /\ news # 0 /\ status' = news /\ news' = 0 /\ UNCHANGED child
      BY <1>0, <2>2 DEF IInv, Places
    <2> QED
      BY <1>1, <2>1, <2>2
  <1>5. status' \in Words /\ ((Ended(status') /\ child'.st = "reaped") \/ Changed(status'))
    <2>1. CASE child.st = "zombie" /\ Reap
      <3>1. Ended(child.word) /\ status' = child.word /\ child' = [child EXCEPT !.st = "reaped"]
        BY <2>1 DEF IInv, StatusWords, Reap
      <3> QED
        BY <1>0, <3>1
    <2>2. CASE news # 0 /\ status' = news
      BY <1>0, <2>2 DEF IInv, StatusWords
    <2> QED
      BY <1>1, <2>1, <2>2
  <1>6. Types'
    BY <1>0, <1>1, <1>3, <1>4, <1>5 DEF IInv, Types, TypeOK, Spoken
  <1>7. Places'
    BY <1>1, <1>4 DEF IInv, Places
  <1>8. StatusWords'
    <2>1. child'.st \in {"zombie", "reaped"} => Ended(child'.word)
      BY <1>0, <1>1, <1>4 DEF IInv, StatusWords, Reap
    <2>2. news' # 0 => Changed(news')
      BY <1>4 DEF IInv, StatusWords
    <2>3. \A w : (Ended(w) => Ended(w)') /\ (Changed(w) => Changed(w)')
      BY <1>1, WordsStay
    <2> QED
      BY <1>1, <1>5, <2>1, <2>2, <2>3 DEF StatusWords
  <1>9. Handled'
    BY <1>3 DEF Handled
  <1>10. DoneMeansReaped'
    BY <1>1 DEF DoneMeansReaped
  <1> QED
    BY <1>3, <1>6, <1>7, <1>8, <1>9, <1>10 DEF IInv, Spoken

\* The parent of program1 says what waitpid told it: the exit or the signal that
\* ended the child, or the one that stopped it; it goes on for a continuation.
LEMMA DecodeStep ==
  ASSUME IInv, Decode
  PROVE  IInv'
  <1>1. /\ prog = "program1" /\ pc = "decode" /\ Say(Lines)
        /\ pc' = IF Lines = <<>> THEN "wait" ELSE "done"
        /\ UNCHANGED <<prog, ignores, mod, status, cpc, child, news, pending, hist>>
    BY DEF Decode, In1, UNTOUCHED1
  <1>2. HandlerRan /\ out \in Seq(Msgs)
    BY <1>1 DEF IInv, Handled, Types
  <1>3. /\ Spoken
        /\ Lines # <<>> => \/ child.st = "reaped"
                           \/ \E s \in StopSignals, m \in Said' : m.what = "signal" /\ m.n = map_status(s)
    <2>1. ASSUME NEW m \in Msgs, Lines = <<m>>, MsgTrue(m)
          PROVE  Spoken /\ m \in Said'
      <3>1. Say(<<m>>) /\ MsgTrue(m)'
        BY <1>1, <2>1 DEF MsgTrue
      <3>2. Spoken
        BY <1>1, <1>2, <3>1, SpeaksOnce
      <3>3. m \in Said'
        BY <1>2, <3>1, SaidNow
      <3> QED
        BY <3>2, <3>3
    <2>2. ASSUME NEW n \in ExitCodes \cup {1}, status = Exited(n), <<"exit", n>> \in hist,
                 child.st = "reaped"
          PROVE  Spoken
      <3> DEFINE m == Msg("parent", "exit status", n)
      <3>1. n \in 0..255
        BY WordTypes
      <3>2. Lines = <<m>>
        BY <2>2, <3>1, ExitWord DEF Lines
      <3>3. m \in Msgs /\ MsgTrue(m)
        BY <2>2, <3>1 DEF m, Msg, Msgs, MsgTrue
      <3> HIDE DEF m
      <3> QED
        BY <2>1, <3>2, <3>3
    <2>3. ASSUME NEW s \in TermSignals, status = Signaled(s), <<"signal", s>> \in hist,
                 child.st = "reaped"
          PROVE  Spoken
      <3> DEFINE m == Msg("parent", "signal", map_status(s))
      <3>1. Lines = <<m>> /\ s \in 1..126
        BY <2>3, SignalWord DEF Lines
      <3>2. m \in Msgs /\ MsgTrue(m)
        <4>1. map_status(s) \in Int
          BY <3>1 DEF map_status, UNKNOWN
        <4>2. <<"signal", s>>[1] = "signal" /\ <<"signal", s>>[2] = s
          OBVIOUS
        <4>3. \E h \in hist : h[1] \in {"signal", "stop"} /\ map_status(h[2]) = map_status(s)
          BY <2>3, <4>2
        <4> QED
          BY <4>1, <4>3 DEF m, Msg, Msgs, MsgTrue
      <3> HIDE DEF m
      <3> QED
        BY <2>1, <3>1, <3>2
    <2>4. ASSUME NEW s \in StopSignals, status = Stopped(s), <<"stop", s>> \in hist
          PROVE  Spoken /\ \E m \in Said' : m.what = "signal" /\ m.n = map_status(s)
      <3> DEFINE m == Msg("parent", "signal", map_status(s))
      <3>1. Lines = <<m>> /\ s \in 1..126
        BY <2>4, ChangeWord DEF Lines
      <3>2. m \in Msgs /\ MsgTrue(m) /\ m.what = "signal" /\ m.n = map_status(s)
        <4>1. map_status(s) \in Int
          BY <3>1 DEF map_status, UNKNOWN
        <4>2. <<"stop", s>>[1] = "stop" /\ <<"stop", s>>[2] = s
          OBVIOUS
        <4>3. \E h \in hist : h[1] \in {"signal", "stop"} /\ map_status(h[2]) = map_status(s)
          BY <2>4, <4>2
        <4> QED
          BY <4>1, <4>3 DEF m, Msg, Msgs, MsgTrue
      <3> HIDE DEF m
      <3> QED
        BY <2>1, <3>1, <3>2
    <2>5. ASSUME status = Continued PROVE Spoken /\ Lines = <<>>
      <3>1. Lines = <<>>
        BY <2>5, ChangeWord DEF Lines
      <3>2. out' = out
        BY <1>1, <1>2, <3>1 DEF Say
      <3> QED
        BY <1>1, <3>1, <3>2, Silent
    <2>6. (Ended(status) /\ child.st = "reaped") \/ Changed(status)
      BY <1>1 DEF IInv, StatusWords
    <2> QED
      BY <2>2, <2>3, <2>4, <2>5, <2>6 DEF Ended, Changed
  <1>4. Types'
    BY <1>1, <1>3 DEF IInv, Types, TypeOK, Spoken
  <1>5. Places'
    BY <1>1 DEF IInv, Places
  <1>6. StatusWords'
    BY <1>1, WordsStay DEF IInv, StatusWords
  <1>7. Handled'
    BY <1>1, <1>2, <1>3 DEF Handled, Spoken
  <1>8. DoneMeansReaped'
    BY <1>1, <1>3 DEF DoneMeansReaped
  <1> QED
    BY <1>3, <1>4, <1>5, <1>6, <1>7, <1>8 DEF IInv, Spoken

\* The parent of program1: fork, waitpid and what it prints, and the handler.
LEMMA Parent1Steps ==
  ASSUME IInv, Parent1 \/ signal_handler
  PROVE  IInv'
  <1>0. /\ out \in Seq(Msgs) /\ pending \in BOOLEAN /\ status \in Words /\ news \in Words /\ 0 \in Words
        /\ child \in [st : {"none", "running", "stopped", "zombie", "gone", "reaped"},
                      word : Words, stops : 0..MaxStops]
    BY WordTypes DEF IInv, Types, TypeOK
  <1>1. CASE ForkFails
    <2> DEFINE m == Msg("parent", "waitpid error", 0)
    <2>1. /\ Say(<<m>>) /\ pc' = "done" /\ pc = "fork" /\ prog = "program1"
          /\ UNCHANGED <<prog, ignores, mod, status, cpc, child, news, pending, hist>>
      BY <1>1 DEF ForkFails, In1, UNTOUCHED1
    <2>2. m \in Msgs /\ MsgTrue(m)' /\ ~Report(m)
      BY DEF m, Msg, Msgs, MsgTrue, Report
    <2> HIDE DEF m
    <2>3. Spoken
      BY <2>1, <2>2, SpeaksOnce
    <2>4. Types'
      BY <2>1, <2>3 DEF IInv, Types, TypeOK, Spoken
    <2>5. Places'
      BY <2>1 DEF IInv, Places
    <2>6. StatusWords'
      BY <2>1, WordsStay DEF IInv, StatusWords
    <2>7. Handled'
      BY <2>1, <2>3 DEF IInv, Handled, Spoken
    <2>8. DoneMeansReaped'
      BY <2>1 DEF IInv, Places, DoneMeansReaped
    <2> QED
      BY <2>3, <2>4, <2>5, <2>6, <2>7, <2>8 DEF IInv, Spoken
  <1>2. CASE Fork
    <2>1. /\ child' = [child EXCEPT !.st = "running"] /\ cpc' = "execl" /\ pc' = "wait"
          /\ pc = "fork" /\ prog = "program1"
          /\ UNCHANGED <<prog, ignores, mod, status, news, pending, out, hist>>
      BY <1>2 DEF Fork, In1, NewChild, UNTOUCHED1
    <2>2. /\ child'.st = "running" /\ child'.stops = child.stops /\ child'.word = child.word
          /\ child' \in [st : {"none", "running", "stopped", "zombie", "gone", "reaped"},
                         word : Words, stops : 0..MaxStops]
      BY <1>0, <2>1
    <2>3. Spoken
      BY <2>1, Silent
    <2>4. Types'
      BY <2>1, <2>2, <2>3 DEF IInv, Types, TypeOK, Spoken
    <2>5. Places'
      BY <2>1, <2>2 DEF IInv, Places
    <2>6. StatusWords'
      BY <2>1, <2>2, WordsStay DEF IInv, StatusWords
    <2>7. Handled'
      BY <2>1, <2>2, <2>3 DEF IInv, Handled, Spoken
    <2>8. DoneMeansReaped'
      BY <2>1 DEF DoneMeansReaped
    <2> QED
      BY <2>3, <2>4, <2>5, <2>6, <2>7, <2>8 DEF IInv, Spoken
  <1>3. CASE signal_handler
    <2> DEFINE m == Msg("parent", "SIGCHLD", 0)
    <2>1. /\ Say(<<m>>) /\ pending' = FALSE /\ pc # "done"
          /\ UNCHANGED <<prog, ignores, mod, pc, status, cpc, child, news, hist>>
      BY <1>3 DEF signal_handler, UNTOUCHED1
    <2>2. m \in Msgs /\ MsgTrue(m)' /\ ~Report(m) /\ m.what = "SIGCHLD"
      BY DEF m, Msg, Msgs, MsgTrue, Report
    <2> HIDE DEF m
    <2>3. Spoken /\ HandlerRan'
      BY <1>0, <2>1, <2>2, SpeaksOnce, HandlerSays
    <2>4. Types'
      <3>1. TypeOK'
        BY <2>1 DEF IInv, Types, TypeOK
      <3>2. pending' \in BOOLEAN
        BY <2>1
      <3> QED
        BY <2>1, <2>3, <3>1, <3>2 DEF IInv, Types, Spoken
    <2>5. Places'
      BY <2>1 DEF IInv, Places
    <2>6. StatusWords'
      BY <2>1, WordsStay DEF IInv, StatusWords
    <2>7. Handled'
      BY <2>3 DEF Handled
    <2>8. DoneMeansReaped'
      BY <2>1, <2>3, DoneStays DEF IInv, Spoken
    <2> QED
      BY <2>3, <2>4, <2>5, <2>6, <2>7, <2>8 DEF IInv, Spoken
  <1>4. CASE Waitpid
    BY <1>4, WaitpidStep
  <1>5. CASE Decode
    BY <1>5, DecodeStep
  <1> QED
    BY <1>1, <1>2, <1>3, <1>4, <1>5 DEF Parent1

-----------------------------------------------------------------------------
(* program2.                                                               *)

\* What program2 prints about its child is so: the child has ended, and neither
\* of the tests that are for a stopped one holds.
LEMMA MyForkEndStep ==
  ASSUME IInv, my_fork_end
  PROVE  IInv'
  <1>1. /\ prog = "program2" /\ pc = "decode" /\ pc' = "done" /\ Say(KernelLines)
        /\ UNCHANGED <<prog, news, pending, status, cpc, child, ignores, mod, hist>>
    BY DEF my_fork_end, In2, UNTOUCHED2
  <1>2. Ended(status) /\ child.st = "reaped"
    BY <1>1 DEF IInv, StatusWords
  <1> DEFINE TrueMsgs == {m \in Msgs : MsgTrue(m)}
  <1>3. ASSUME KernelLines \in Seq(TrueMsgs) PROVE Spoken
    <2>1. KernelLines \in Seq(Msgs) /\ \A i \in 1..Len(KernelLines) : MsgTrue(KernelLines[i])
      BY <1>3
    <2>2. \A m : MsgTrue(m) => MsgTrue(m)' /\ ~Report(m)
      BY <1>1 DEF MsgTrue, Report
    <2> QED
      BY <1>1, <2>1, <2>2, Speaks
  <1>4. ASSUME NEW e \in {"exit", "signal"}, NEW n \in 0..255, <<e, n>> \in hist
        PROVE  /\ \A k \in Int : KMsg("signal", k) \in Msgs /\ MsgTrue(KMsg("signal", k))
               /\ KMsg("terminated", 0) \in Msgs /\ MsgTrue(KMsg("terminated", 0))
               /\ KMsg("return", n) \in Msgs /\ MsgTrue(KMsg("return", n))
               /\ KMsg("core", 0) \in Msgs /\ (e = "signal" /\ n \in CoreSignals => MsgTrue(KMsg("core", 0)))
    <2>1. <<e, n>>[1] = e /\ <<e, n>>[2] = n
      OBVIOUS
    <2>2. \E h \in hist : h[1] \in {"signal", "exit"} /\ h[2] = n
      BY <1>4, <2>1
    <2>3. ASSUME NEW k \in Int, NEW w \in {"signal", "terminated", "return", "core"}
          PROVE  /\ KMsg(w, k) \in Msgs /\ KMsg(w, k).what = w /\ KMsg(w, k).n = k
                 /\ KMsg(w, k).by = "parent"
      BY DEF KMsg, Msg, Msgs
    <2>4. \A k \in Int : MsgTrue(KMsg("signal", k))
      BY <1>1, <2>3 DEF MsgTrue
    <2>5. MsgTrue(KMsg("terminated", 0))
      <3>1. KMsg("terminated", 0).what = "terminated" /\ KMsg("terminated", 0).by = "parent"
        BY <2>3
      <3> QED
        BY <2>2, <3>1, Zenon DEF MsgTrue
    <2>6. MsgTrue(KMsg("return", n))
      <3>1. /\ KMsg("return", n).what = "return" /\ KMsg("return", n).by = "parent"
            /\ KMsg("return", n).n = n
        BY <2>3
      <3> QED
        BY <2>2, <3>1, Zenon DEF MsgTrue
    <2>7. e = "signal" /\ n \in CoreSignals => MsgTrue(KMsg("core", 0))
      <3>1. KMsg("core", 0).what = "core" /\ KMsg("core", 0).by = "parent"
        BY <2>3
      <3> QED
        BY <1>4, <3>1, Zenon DEF MsgTrue
    <2> QED
      BY <2>3, <2>4, <2>5, <2>6, <2>7
  <1>5. \A k \in 0..255 : kmap_status(k) \in Int
    BY DEF kmap_status, map_status, UNKNOWN
  <1>6. \A x, y \in Seq(TrueMsgs) : x \o y \in Seq(TrueMsgs) /\ <<>> \in Seq(TrueMsgs)
    OBVIOUS
  <1>7. ASSUME NEW n \in ExitCodes \cup {1}, status = Exited(n), <<"exit", n>> \in hist
        PROVE  Spoken
    <2> DEFINE a == KMsg("signal", kmap_status(n))
               b == KMsg("terminated", 0)
               c == KMsg("return", n)
    <2>1. n \in 0..255
      BY WordTypes
    <2>2. WEXITSTATUS(status) = n /\ WTERMSIG(status) = 0
      BY <1>7, <2>1, ExitWord
    <2>3. a \in TrueMsgs /\ b \in TrueMsgs /\ c \in TrueMsgs
      BY <1>4, <1>5, <1>7, <2>1
    <2>4. KernelLines = (<<a, b, c>> \o <<>>) \o <<>>
      BY <2>2 DEF KernelLines
    <2> HIDE DEF a, b, c, TrueMsgs
    <2>5. <<a, b, c>> \in Seq(TrueMsgs)
      BY <2>3
    <2> QED
      BY <1>3, <1>6, <2>4, <2>5
  <1>8. ASSUME NEW s \in TermSignals, status = Signaled(s), <<"signal", s>> \in hist
        PROVE  Spoken
    <2> DEFINE a == KMsg("signal", kmap_status(s))
               b == KMsg("core", 0)
               c == KMsg("terminated", 0)
               d == KMsg("return", s)
    <2>1. /\ WTERMSIG(status) = s /\ s \in 1..126 /\ s \in 0..255
          /\ (status \div 128) % 2 = 1 => s \in CoreSignals
      BY <1>8, SignalWord
    <2>2. s # 0 /\ s # 127
      BY <2>1
    <2>3. a \in TrueMsgs /\ c \in TrueMsgs /\ d \in TrueMsgs /\ (s \in CoreSignals => b \in TrueMsgs)
      BY <1>4, <1>5, <1>8, <2>1
    <2>4. KernelLines = (<<>> \o ((<<a>> \o (IF (status \div 128) % 2 = 1 THEN <<b>> ELSE <<>>))
                                  \o <<c, d>>)) \o <<>>
      BY <2>1, <2>2 DEF KernelLines
    <2> HIDE DEF a, b, c, d, TrueMsgs
    <2>5. /\ <<a>> \in Seq(TrueMsgs) /\ <<c, d>> \in Seq(TrueMsgs)
          /\ (IF (status \div 128) % 2 = 1 THEN <<b>> ELSE <<>>) \in Seq(TrueMsgs)
      BY <2>1, <2>3
    <2> QED
      BY <1>3, <1>6, <2>4, <2>5
  <1>9. Spoken
    BY <1>2, <1>7, <1>8 DEF Ended
  <1>10. Types'
    BY <1>1, <1>9 DEF IInv, Types, TypeOK, Spoken
  <1>11. Places'
    BY <1>1, <1>2 DEF IInv, Places
  <1>12. StatusWords'
    BY <1>1, WordsStay DEF IInv, StatusWords
  <1>13. Handled'
    BY <1>1 DEF Handled
  <1>14. DoneMeansReaped'
    BY <1>1, <1>2 DEF DoneMeansReaped
  <1> QED
    BY <1>9, <1>10, <1>11, <1>12, <1>13, <1>14 DEF IInv, Spoken

\* Steps of program2 that leave its child and what is known of it alone.
LEMMA Child2Stays ==
  ASSUME IInv, Spoken, prog = "program2",
         UNCHANGED <<prog, news, pending, status, cpc, child, hist>>,
         ignores' \in BOOLEAN, ignores' => ignores,
         mod' \in {"out", "failed", "loaded", "removed"},
         \/ pc' = pc
         \/ pc' \in {"signals", "done"} /\ pc \in {"init", "clone"}
         \/ pc' = "clone" /\ pc = "signals"
         \/ pc' = "fault",
         pc' = "clone" => ~ignores'
  PROVE  IInv'
  <1>1. Types'
    BY DEF IInv, Types, TypeOK, Spoken
  <1>2. Places'
    BY DEF IInv, Places
  <1>3. StatusWords'
    BY WordsStay DEF IInv, StatusWords
  <1>4. Handled'
    BY DEF Handled
  <1>5. DoneMeansReaped'
    <2>1. CASE pc' = pc
      BY <2>1, DoneStays DEF IInv, Spoken
    <2>2. CASE pc' = "done" /\ pc \in {"init", "clone"}
      BY <2>2 DEF IInv, Places, DoneMeansReaped
    <2>3. CASE pc' # "done"
      BY <2>3 DEF DoneMeansReaped
    <2> QED
      BY <2>1, <2>2, <2>3
  <1> QED
    BY <1>1, <1>2, <1>3, <1>4, <1>5 DEF IInv, Spoken

\* The thread of program2, the loading of its module and its removal.
LEMMA Parent2Steps ==
  ASSUME IInv, Parent2 \/ program2_exit
  PROVE  IInv'
  <1>0. /\ out \in Seq(Msgs) /\ status \in Words /\ UNSET \in Words
        /\ child \in [st : {"none", "running", "stopped", "zombie", "gone", "reaped"},
                      word : Words, stops : 0..MaxStops]
        /\ ignores \in BOOLEAN /\ mod \in {"out", "failed", "loaded", "removed"}
    BY WordTypes DEF IInv, Types, TypeOK
  <1>1. CASE program2_init \/ program2_exit
    <2>1. PICK m \in Msgs : /\ m.what \in {"Module_init", "Module_exit"} /\ m.by = "parent"
                            /\ Say(<<m>>)
      <3>1. /\ KMsg("Module_init", 0) \in Msgs /\ KMsg("Module_init", 0).what = "Module_init"
            /\ KMsg("Module_init", 0).by = "parent"
        BY DEF KMsg, Msg, Msgs
      <3>3. /\ KMsg("Module_exit", 0) \in Msgs /\ KMsg("Module_exit", 0).what = "Module_exit"
            /\ KMsg("Module_exit", 0).by = "parent"
        BY DEF KMsg, Msg, Msgs
      <3>2. Say(<<KMsg("Module_init", 0)>>) \/ Say(<<KMsg("Module_exit", 0)>>)
        BY <1>1 DEF program2_init, program2_exit
      <3> QED
        BY <3>1, <3>2, <3>3, Zenon
    <2>2. MsgTrue(m)' /\ ~Report(m)
      BY <2>1 DEF MsgTrue, Report
    <2>3. /\ prog = "program2" /\ UNCHANGED <<prog, news, pending, status, cpc, child, ignores, hist>>
          /\ mod' \in {"out", "failed", "loaded", "removed"}
          /\ pc' = pc \/ (pc = "init" /\ pc' \in {"signals", "done"})
      BY <1>1 DEF program2_init, program2_exit, In2, UNTOUCHED2
    <2>4. Spoken
      BY <2>1, <2>2, <2>3, SpeaksOnce
    <2>5. pc = "clone" => ~ignores
      BY DEF IInv, Places
    <2> QED
      BY <1>0, <2>3, <2>4, <2>5, Child2Stays
  <1>2. CASE SetSignals \/ CloneFails \/ ThreadFaults
    <2>1. /\ prog = "program2" /\ UNCHANGED <<prog, news, pending, status, cpc, child, mod, out, hist>>
          /\ ignores' \in {ignores, FALSE}
          /\ \/ pc = "signals" /\ pc' = "clone" /\ ignores' = FALSE
             \/ pc = "clone" /\ pc' = "done"
             \/ pc' = "fault"
      BY <1>2 DEF SetSignals, CloneFails, ThreadFaults, In2, UNTOUCHED2
    <2>2. Spoken
      BY <2>1, Silent
    <2>3. ignores' \in BOOLEAN /\ (ignores' => ignores)
      <3>1. CASE ignores' = ignores
        BY <1>0, <3>1, Zenon
      <3>2. CASE ignores' = FALSE
        BY <3>2
      <3> QED
        BY <2>1, <3>1, <3>2, Zenon
    <2>4. pc' = "clone" => ~ignores'
      <3>1. "fault" # "clone" /\ "done" # "clone"
        OBVIOUS
      <3> QED
        BY <2>1, <3>1
    <2> QED
      BY <1>0, <2>1, <2>2, <2>3, <2>4, Child2Stays
  <1>3. CASE Clone
    <2>1. /\ child' = [child EXCEPT !.st = "running"] /\ cpc' = "my_exec" /\ pc' = "kernel_wait"
          /\ status' = UNSET /\ pc = "clone" /\ prog = "program2"
          /\ UNCHANGED <<prog, ignores, mod, news, pending, out, hist>>
      BY <1>3 DEF Clone, In2, NewChild, UNTOUCHED2
    <2>2. /\ child'.st = "running" /\ child'.stops = child.stops /\ child'.word = child.word
          /\ child' \in [st : {"none", "running", "stopped", "zombie", "gone", "reaped"},
                         word : Words, stops : 0..MaxStops]
      BY <1>0, <2>1
    <2>3. Spoken
      BY <2>1, Silent
    <2>4. Types'
      BY <1>0, <2>1, <2>2, <2>3 DEF IInv, Types, TypeOK, Spoken
    <2>5. Places'
      BY <2>1, <2>2 DEF IInv, Places
    <2>6. StatusWords'
      BY <2>1, <2>2, WordsStay DEF IInv, StatusWords
    <2>7. Handled' /\ DoneMeansReaped'
      BY <2>1 DEF Handled, DoneMeansReaped
    <2> QED
      BY <2>3, <2>4, <2>5, <2>6, <2>7 DEF IInv, Spoken
  <1>4. CASE kernel_wait
    <2>1. /\ prog = "program2" /\ pc = "kernel_wait" /\ pc' = "decode"
          /\ child.st = "zombie" /\ status' = child.word /\ child' = [child EXCEPT !.st = "reaped"]
          /\ UNCHANGED <<prog, ignores, mod, cpc, news, pending, out, hist>>
      BY <1>4 DEF kernel_wait, In2, UNTOUCHED2, Reap, IInv, Places
    <2>2. /\ child'.st = "reaped" /\ child'.stops = child.stops /\ child'.word = child.word
          /\ child' \in [st : {"none", "running", "stopped", "zombie", "gone", "reaped"},
                         word : Words, stops : 0..MaxStops]
          /\ child.word \in Words
      BY <1>0, <2>1
    <2>3. Spoken
      BY <2>1, Silent
    <2>4. Types'
      BY <1>0, <2>1, <2>2, <2>3 DEF IInv, Types, TypeOK, Spoken
    <2>5. Places'
      BY <2>1, <2>2 DEF IInv, Places
    <2>6. StatusWords'
      BY <2>1, <2>2, WordsStay DEF IInv, StatusWords
    <2>7. Handled' /\ DoneMeansReaped'
      BY <2>1 DEF Handled, DoneMeansReaped
    <2> QED
      BY <2>3, <2>4, <2>5, <2>6, <2>7 DEF IInv, Spoken
  <1> QED
    BY <1>1, <1>2, <1>3, <1>4, MyForkEndStep DEF Parent2

-----------------------------------------------------------------------------
(* The theorems.                                                           *)

\* Both programs start so.
LEMMA InitIInv == Init => IInv
  <1>1. SUFFICES ASSUME NEW p \in {"program1", "program2"}, Init0(p) PROVE IInv
    BY DEF Init
  <1>2. /\ out = <<>> /\ DOMAIN out = {} /\ out \in Seq(Msgs) /\ Said = {}
    BY <1>1 DEF Init0, Said
  <1>3. 0 \in 0..MaxStops /\ 0 \in Words
    BY ChildAssumption, WordTypes
  <1>4. Types
    BY <1>1, <1>2, <1>3 DEF Init0, Types, TypeOK
  <1>5. Places /\ StatusWords /\ Handled
    BY <1>1 DEF Init0, Places, StatusWords, Handled
  <1>6. ReportIsTrue /\ SigchldFirst
    BY <1>2 DEF ReportIsTrue, SigchldFirst
  <1>7. DoneMeansReaped
    BY <1>1 DEF Init0, DoneMeansReaped
  <1> QED
    BY <1>4, <1>5, <1>6, <1>7 DEF IInv

\* Every step of the parent, the child and the test program keeps it so.
LEMMA NextIInv == IInv /\ [Next]_vars => IInv'
  <1>1. ASSUME IInv, UNCHANGED vars PROVE IInv'
    <2>1. UNCHANGED <<prog, pc, status, cpc, child, news, ignores, pending, mod, out, hist>>
      BY <1>1 DEF vars
    <2>2. Spoken
      BY <1>1, <2>1, Silent
    <2>3. Types'
      <3>1. TypeOK'
        BY <1>1, <2>1 DEF IInv, Types, TypeOK
      <3>2. ignores' \in BOOLEAN /\ pending' \in BOOLEAN
        BY <1>1, <2>1, Zenon DEF IInv, Types
      <3> QED
        BY <1>1, <2>1, <2>2, <3>1, <3>2 DEF IInv, Types, Spoken
    <2>4. Places'
      BY <1>1, <2>1 DEF IInv, Places
    <2>5. StatusWords'
      BY <1>1, <2>1, WordsStay DEF IInv, StatusWords
    <2>6. Handled'
      BY <1>1, <2>1, <2>2 DEF IInv, Handled, Spoken
    <2>7. DoneMeansReaped'
      BY <1>1, <2>1, <2>2, DoneStays DEF IInv, Spoken
    <2> QED
      BY <2>2, <2>3, <2>4, <2>5, <2>6, <2>7 DEF IInv, Spoken
  <1> QED
    BY <1>1, TestSteps, ChildSteps, Parent1Steps, Parent2Steps DEF Next, Next1, Next2

THEOREM Invariant == Spec => []IInv
  BY InitIInv, NextIInv, PTL DEF Spec

THEOREM TypeCorrect == Spec => []TypeOK
  <1>1. IInv => TypeOK
    BY DEF IInv, Types
  <1> QED
    BY <1>1, Invariant, PTL

\* What program1 and program2 print about their child happened to it: no exit
\* is taken for a signal, no stop for an end, and none is made up, whatever the
\* exit codes and the signals are.
THEOREM ReportCorrect == Spec => []ReportIsTrue
  <1>1. IInv => ReportIsTrue
    BY DEF IInv
  <1> QED
    BY <1>1, Invariant, PTL

\* The handler of SIGCHLD prints its line before program1 reports a status.
THEOREM SigchldCorrect == Spec => []SigchldFirst
  <1>1. IInv => SigchldFirst
    BY DEF IInv
  <1> QED
    BY <1>1, Invariant, PTL

\* A parent that ends has reaped its child, or has none, or reported a stop.
THEOREM ReapedCorrect == Spec => []DoneMeansReaped
  <1>1. IInv => DoneMeansReaped
    BY DEF IInv
  <1> QED
    BY <1>1, Invariant, PTL

-----------------------------------------------------------------------------
(* pstree.                                                                 *)

\* The phases in which /proc is read, and those behind build_process_tree.
Reading == {"readdir", "scan", "threads", "cmdline"}
Linking == {"sort", "print", "done"}

\* A child of a node, a node of process_tree and a task of the kernel.
Nodes == [id : Ids, name : Names \cup {0}, thread : BOOLEAN]
Entry == [ppid : Ids \cup {-1, 0}, name : Names \cup {0},
          cmdline : {"empty", "command", "()"}, children : SUBSET Nodes]
Tasks == [kind : {"none", "process", "thread"}, parent : Ids \cup {0}, name : Names \cup {0}]

\* The variables have their types.
PsTypes ==
    /\ task \in [Ids -> Tasks]
    /\ last \in Ids /\ events \in 0..MaxEvents /\ opts \in OptionSets
    /\ phase \in Reading \cup {"link", "overrun"} \cup Linking
    /\ entries \subseteq Ids /\ pos \in Ids \cup {0} /\ cur \in Ids \cup {0} /\ open \in BOOLEAN
    /\ tree \in [Ids -> Entry]
    /\ order \in [Ids -> Seq(Nodes)]
    /\ stay \subseteq Ids /\ bad \subseteq Ids

\* Process 1 is there all the time, and what is read of it is true.
InitProcess ==
    /\ IsProcess(1) /\ task[1].parent = 0 /\ task[1].name \in Names \ Spaced
    /\ 1 \in stay /\ 1 \notin bad
    /\ phase = "scan" /\ cur = 1 => open
    /\ tree[1].ppid \in {-1, 0}

\* How far readdir has come.
Progress ==
    /\ phase = "scan" /\ open => IsProcess(cur)
    /\ \A i \in entries : i > cur /\ i <= pos /\ tree[i] = NULL
    /\ phase \in {"link"} \cup Linking => entries = {}
    /\ phase \in Reading => cur <= pos /\ \A i \in Ids : i > pos => tree[i] = NULL
    /\ phase \in Reading \ {"readdir"} => cur \in Ids
    /\ phase \in {"threads", "cmdline"} => tree[cur].ppid # -1

Kids(i) == {c \in tree[i].children : ~c.thread}

\* The children of a node are threads at first, and then also the processes that
\* name it as their parent.
Nested ==
    /\ \A i \in Ids : IsFiniteSet(tree[i].children) /\ (tree[i] # NULL => tree[i].ppid # -1)
    /\ ~ShowCmdline => \A i \in Ids : tree[i].cmdline = "empty"
    /\ phase \in Reading \cup {"link"} => \A i \in Ids : Kids(i) = {}
    /\ phase \in Linking => \A i \in Ids : Kids(i) = IF tree[i] = NULL THEN {} ELSE Linked(i)

\* order[i] is what sort_children may make of the children of i.
IsOrder(i) ==
    /\ order[i] \in SetToSeqs(tree[i].children)
    /\ \A k \in 1..(Len(order[i]) - 1) : NotAfter(order[i][k], order[i][k + 1])

\* sort_children has come by all nodes below pos, and by all when it is done.
Ordered ==
    /\ phase = "sort" => pos \in Ids
    /\ phase \in Linking => \A i \in Ids : (phase = "sort" => i < pos) => IsOrder(i)

\* What is printed is what print_process_tree prints of the tree as it is now.
Written == phase = "done" => \E junk \in BOOLEAN : printed = Output(junk)

\* The inductive invariant.
PsInv == PsTypes /\ InitProcess /\ Progress /\ Nested /\ Ordered /\ Written

-----------------------------------------------------------------------------
(* The operators.                                                          *)

\* Ids are numbers from 1 on, with no gap.
LEMMA IdsType == /\ IsFiniteSet(Ids) /\ Cardinality(Ids) \in Nat /\ Ids = 1..Cardinality(Ids)
                 /\ Ids \subseteq Nat \ {0} /\ FIRST \in Ids /\ 1 \in Ids
                 /\ \A i \in Ids : \A j \in 1..i : j \in Ids
  <1>1. IsFiniteSet(Ids) /\ Ids = 1..Cardinality(Ids) /\ FIRST \in Ids
    BY PstreeAssumption
  <1>2. Cardinality(Ids) \in Nat
    BY <1>1, FS_CardinalityType
  <1> QED
    BY <1>1, <1>2

\* What a function makes of a finite set is finite.
LEMMA ImageFinite ==
  ASSUME NEW S, IsFiniteSet(S), NEW f, NEW T, \A y \in T : \E x \in S : f[x] = y
  PROVE  IsFiniteSet(T)
  <1> DEFINE R == {x \in S : f[x] \in T}
             g == [x \in R |-> f[x]]
  <1>1. IsFiniteSet(R)
    BY FS_Subset
  <1>2. g \in [R -> T] /\ \A t \in T : \E x \in R : g[x] = t
    OBVIOUS
  <1>3. g \in Surjection(R, T)
    BY <1>2, Fun_IsSurj
  <1> QED
    BY <1>1, <1>3, FS_Surjection

\* The closure has its first element and is closed,
LEMMA ClosureGrows ==
  ASSUME NEW D, NEW step \in [D -> SUBSET D], NEW x \in D
  PROVE  /\ x \in Closure(step, x) /\ Closure(step, x) \subseteq D
         /\ \A z \in Closure(step, x) : step[z] \subseteq Closure(step, x)
  <1>1. DOMAIN step = D
    OBVIOUS
  <1>2. ASSUME NEW z \in Closure(step, x), NEW y \in step[z] PROVE y \in Closure(step, x)
    <2>1. z \in D /\ y \in D
      BY <1>1 DEF Closure
    <2> QED
      BY <1>1, <2>1 DEF Closure
  <1> QED
    BY <1>1, <1>2 DEF Closure

\* and each set that has it and is closed contains it.
LEMMA ClosureLeast ==
  ASSUME NEW D, NEW step \in [D -> SUBSET D], NEW x \in D,
         NEW S \in SUBSET D, x \in S, \A z \in S : step[z] \subseteq S
  PROVE  Closure(step, x) \subseteq S
  <1>1. DOMAIN step = D
    OBVIOUS
  <1> QED
    BY <1>1 DEF Closure

-----------------------------------------------------------------------------
(* The kernel's steps.                                                     *)

\* While pstree reads, a kernel step that has its types and leaves process 1 alone
\* keeps what is known of the tree.
LEMMA EventKeeps ==
  ASSUME PsInv, Event,
         task' \in [Ids -> Tasks],
         last' \in Ids, stay' \subseteq Ids, open' \in BOOLEAN,
         task'[1] = task[1], 1 \in stay',
         open' => open, phase = "scan" /\ cur = 1 => open' = open,
         phase = "scan" /\ open' => task'[cur].kind = task[cur].kind
  PROVE  PsInv'
  <1>1. PsTypes /\ InitProcess /\ Progress /\ Nested
    BY DEF PsInv
  <1>2. /\ phase \in Reading /\ events' = events + 1 /\ events < MaxEvents
        /\ opts' = opts /\ phase' = phase /\ entries' = entries /\ pos' = pos /\ cur' = cur
        /\ tree' = tree /\ order' = order /\ printed' = printed /\ bad' = bad
    BY DEF Event, Reading
  <1>3. PsTypes'
    <2>1. MaxEvents \in Nat
      BY PstreeAssumption
    <2>2. events \in 0..MaxEvents
      BY <1>1 DEF PsTypes
    <2>3. events' \in 0..MaxEvents
      BY <1>2, <2>1, <2>2
    <2> QED
      BY <1>1, <1>2, <2>3 DEF PsTypes
  <1>4. InitProcess'
    BY <1>1, <1>2 DEF InitProcess, IsProcess
  <1>5. Progress'
    BY <1>1, <1>2 DEF Progress, IsProcess
  <1>6. Nested'
    <2>1. \A i \in Ids : Kids(i) = {} => (Kids(i) = {})'
      BY <1>2 DEF Kids
    <2>2. phase' \in Reading
      BY <1>2
    <2>3. phase' \notin Linking
      BY <2>2 DEF Reading, Linking
    <2>4. /\ \A i \in Ids : IsFiniteSet(tree[i].children) /\ (tree[i] # NULL => tree[i].ppid # -1)
          /\ ~ShowCmdline => \A i \in Ids : tree[i].cmdline = "empty"
          /\ \A i \in Ids : Kids(i) = {}
      BY <1>1, <1>2 DEF Nested
    <2> QED
      BY <1>2, <2>1, <2>2, <2>3, <2>4 DEF Nested, ShowCmdline
  <1>7. phase' \in Reading
    BY <1>2
  <1>8. Ordered' /\ Written'
    BY <1>7 DEF Ordered, Written, Reading, Linking
  <1> QED
    BY <1>3, <1>4, <1>5, <1>6, <1>8 DEF PsInv

\* The ids that can be given out are numbers, and the greatest of two of them is
\* one of them.
LEMMA NewId ==
  ASSUME PsTypes, FreeIds # {}
  PROVE  /\ Min(FreeIds) \in FreeIds /\ FreeIds \subseteq Ids
         /\ \A i \in FreeIds : Max({last, i}) \in {last, i} /\ Max({last, i}) >= last /\ Max({last, i}) >= i
  <1>1. FreeIds \subseteq Ids /\ FreeIds \subseteq Nat
    BY IdsType DEF FreeIds
  <1>2. Min(FreeIds) \in FreeIds
    BY <1>1, MinNat
  <1>3. ASSUME NEW i \in FreeIds
        PROVE  Max({last, i}) \in {last, i} /\ Max({last, i}) >= last /\ Max({last, i}) >= i
    <2>1. last \in Nat /\ i \in Nat
      BY <1>1, IdsType DEF PsTypes
    <2>2. \A x \in {last, i} : x <= last + i
      BY <2>1
    <2>3. {last, i} \subseteq Int /\ {last, i} # {} /\ last + i \in Int
      BY <2>1
    <2>4. Max({last, i}) \in {last, i} /\ \A y \in {last, i} : Max({last, i}) >= y
      BY <2>2, <2>3, MaxInt
    <2> QED
      BY <2>4
  <1> QED
    BY <1>1, <1>2, <1>3

\* A new process or thread is not one that pstree reads right now.
LEMMA NewTaskStep ==
  ASSUME PsInv, NEW p \in Ids, NEW nm \in Names, NEW kind \in {"process", "thread"}, NewTask(p, kind, nm)
  PROVE  PsInv'
  <1>1. PsTypes /\ InitProcess
    BY DEF PsInv
  <1>2. Event /\ FreeIds # {} /\ stay' = stay /\ open' = open
    BY DEF NewTask
  <1>3. PICK i \in FreeIds : /\ task' = [task EXCEPT ![i] = [kind |-> kind, parent |-> p, name |-> nm]]
                             /\ last' = Max({last, i})
    BY <1>1, <1>2, NewId DEF NewTask
  <1>4. i \in Ids /\ last' \in {last, i}
    BY <1>1, <1>2, <1>3, NewId
  <1>5. last' \in Ids
    BY <1>1, <1>4 DEF PsTypes
  <1>6. task[i].kind = "none"
    BY <1>3 DEF FreeIds
  <1>7. i # 1
    BY <1>1, <1>6 DEF InitProcess, IsProcess
  <1>8. task' \in [Ids -> Tasks]
    BY <1>1, <1>3, <1>4 DEF PsTypes, Tasks
  <1>9. \A j \in Ids : j # i => task'[j] = task[j]
    BY <1>1, <1>3, <1>4 DEF PsTypes
  <1>10. task'[1] = task[1] /\ 1 \in stay'
    BY <1>1, <1>2, <1>7, <1>9, IdsType DEF InitProcess
  <1>11. phase = "scan" /\ open => IsProcess(cur) /\ cur \in Ids
    BY DEF PsInv, Progress, Reading
  <1>12. phase = "scan" /\ open => cur # i
    BY <1>6, <1>11 DEF IsProcess
  <1>13. phase = "scan" /\ open' => task'[cur].kind = task[cur].kind
    BY <1>2, <1>9, <1>11, <1>12
  <1>14. stay' \subseteq Ids /\ open' \in BOOLEAN
    BY <1>1, <1>2 DEF PsTypes
  <1> QED
    BY <1>2, <1>5, <1>8, <1>10, <1>13, <1>14, EventKeeps

\* Process 1 does not exit and has no parent that could.
LEMMA ExitProcessStep ==
  ASSUME PsInv, NEW p \in Ids, ExitProcess(p)
  PROVE  PsInv'
  <1>1. PsTypes /\ InitProcess
    BY DEF PsInv
  <1>2. /\ Event /\ p # 1 /\ last' = last /\ stay' = stay \ {p} /\ open' = (open /\ cur # p)
        /\ task' = [i \in Ids |-> IF i = p \/ i \in Threads(p) THEN NoTask
                                  ELSE IF task[i].parent = p THEN [task[i] EXCEPT !.parent = 1]
                                  ELSE task[i]]
    BY DEF ExitProcess
  <1>3. task' \in [Ids -> Tasks]
    <2>1. NoTask \in Tasks
      BY DEF NoTask, Tasks
    <2>2. ASSUME NEW i \in Ids
          PROVE  [task[i] EXCEPT !.parent = 1]
                   \in Tasks
      <3>1. task[i] \in Tasks
        BY <1>1 DEF PsTypes
      <3> QED
        BY <3>1, IdsType DEF Tasks
    <2> QED
      BY <1>1, <1>2, <2>1, <2>2 DEF PsTypes
  <1>4. task'[1] = task[1]
    <2>1. 1 \notin Threads(p) /\ task[1].parent # p /\ 1 \in Ids
      BY <1>1, IdsType DEF InitProcess, IsProcess, Threads
    <2> QED
      BY <1>2, <2>1
  <1>5. ASSUME phase = "scan", open' PROVE task'[cur].kind = task[cur].kind
    <2>1. IsProcess(cur) /\ cur \in Ids /\ cur # p
      BY <1>2, <1>5 DEF PsInv, Progress, Reading
    <2>2. cur \notin Threads(p)
      BY <2>1 DEF Threads, IsProcess
    <2>3. task'[cur] = IF task[cur].parent = p THEN [task[cur] EXCEPT !.parent = 1] ELSE task[cur]
      BY <1>2, <2>1, <2>2
    <2>4. task[cur] \in Tasks
      BY <1>1, <2>1 DEF PsTypes
    <2> QED
      BY <2>3, <2>4
  <1>6. last' \in Ids /\ stay' \subseteq Ids /\ open' \in BOOLEAN /\ 1 \in stay' /\ (open' => open)
    BY <1>1, <1>2 DEF PsTypes, InitProcess
  <1>7. phase = "scan" /\ cur = 1 => open' = open
    BY <1>2, <1>1 DEF PsTypes
  <1> QED
    BY <1>2, <1>3, <1>4, <1>5, <1>6, <1>7, EventKeeps

\* A thread that ends is no process.
LEMMA ExitThreadStep ==
  ASSUME PsInv, NEW i \in Ids, ExitThread(i)
  PROVE  PsInv'
  <1>1. PsTypes /\ InitProcess
    BY DEF PsInv
  <1>2. /\ Event /\ task[i].kind = "thread" /\ task' = [task EXCEPT ![i] = NoTask]
        /\ last' = last /\ stay' = stay /\ open' = open
    BY DEF ExitThread
  <1>3. task' \in [Ids -> Tasks]
    <2>1. NoTask \in Tasks
      BY DEF NoTask, Tasks
    <2> QED
      BY <1>1, <1>2, <2>1 DEF PsTypes
  <1>4. \A j \in Ids : j # i => task'[j] = task[j]
    BY <1>1, <1>2 DEF PsTypes
  <1>5. i # 1
    BY <1>1, <1>2 DEF InitProcess, IsProcess
  <1>6. phase = "scan" /\ open => cur \in Ids /\ cur # i
    BY <1>2 DEF PsInv, Progress, Reading, IsProcess
  <1>7. task'[1] = task[1] /\ 1 \in stay' /\ last' \in Ids /\ stay' \subseteq Ids /\ open' \in BOOLEAN
    BY <1>1, <1>2, <1>4, <1>5, IdsType DEF InitProcess, PsTypes
  <1> QED
    BY <1>2, <1>3, <1>4, <1>6, <1>7, EventKeeps

-----------------------------------------------------------------------------
(* Reading.                                                                *)

\* While nothing is linked a step that adds threads to the tree, or a node
\* without children, keeps the children in order.
LEMMA TreeStays ==
  ASSUME PsInv, phase \in Reading, phase' \in Reading \cup {"link", "overrun"}, tree' = tree, opts' = opts
  PROVE  Nested' /\ Ordered' /\ Written'
  <1>1. \A i \in Ids : Kids(i) = {} => (Kids(i) = {})'
    BY DEF Kids
  <1>2. phase' \notin Linking
    BY DEF Reading, Linking
  <1>3. Nested'
    BY <1>1, <1>2 DEF PsInv, Nested, ShowCmdline
  <1> QED
    BY <1>2, <1>3 DEF Ordered, Written, Linking

\* readdir goes on behind pos.
LEMMA ReadDirStep ==
  ASSUME PsInv, ReadDir
  PROVE  PsInv'
  <1> DEFINE more == {i \in Ids : IsProcess(i) /\ i > pos}
  <1>1. PsTypes /\ InitProcess /\ Progress
    BY DEF PsInv
  <1>2. /\ phase = "readdir" /\ entries = {}
        /\ task' = task /\ last' = last /\ events' = events /\ stay' = stay
        /\ opts' = opts /\ cur' = cur /\ open' = open /\ tree' = tree /\ order' = order
        /\ printed' = printed /\ bad' = bad
    BY DEF ReadDir, kernel
  <1>3. \/ more = {} /\ phase' = "link" /\ entries' = entries /\ pos' = pos
        \/ \E k \in more : entries' = {i \in more : i <= k} /\ pos' = k /\ phase' = phase
    BY DEF ReadDir
  <1> HIDE DEF more
  <1>4. more \subseteq Ids /\ \A i \in more : i > pos
    BY DEF more
  <1>5. phase' \in {"readdir", "link"} /\ entries' \subseteq Ids /\ pos' \in Ids \cup {0}
    BY <1>1, <1>2, <1>3, <1>4 DEF PsTypes
  <1>6. PsTypes'
    BY <1>1, <1>2, <1>5 DEF PsTypes, Reading
  <1>7. InitProcess'
    BY <1>1, <1>2, <1>5 DEF InitProcess, IsProcess
  <1>8. Progress'
    <2>1. cur <= pos /\ \A i \in Ids : i > pos => tree[i] = NULL
      BY <1>1, <1>2 DEF Progress, Reading
    <2>2. cur \in Int /\ pos \in Int /\ \A i \in Ids : i \in Int
      <3>1. cur \in Ids \cup {0} /\ pos \in Ids \cup {0}
        BY <1>1 DEF PsTypes
      <3>2. Ids \subseteq Int
        BY IdsType
      <3> QED
        BY <3>1, <3>2
    <2>3. CASE more = {} /\ phase' = "link" /\ entries' = entries /\ pos' = pos
      BY <1>2, <2>3 DEF Progress, Reading
    <2>4. ASSUME NEW k \in more, entries' = {i \in more : i <= k}, pos' = k, phase' = phase
          PROVE  Progress'
      <3>1. k > pos /\ k \in Int
        BY <1>4, <2>2
      <3>2. cur <= k /\ \A i \in Ids : i > k => tree[i] = NULL
        BY <2>1, <2>2, <3>1
      <3>3. \A i \in entries' : i > cur /\ i <= k /\ tree[i] = NULL
        BY <1>4, <2>1, <2>2, <2>4
      <3> QED
        BY <1>2, <2>4, <3>2, <3>3 DEF Progress, Linking
    <2> QED
      BY <1>3, <2>3, <2>4
  <1>9. Nested' /\ Ordered' /\ Written'
    BY <1>2, <1>5, TreeStays DEF Reading
  <1> QED
    BY <1>6, <1>7, <1>8, <1>9 DEF PsInv

\* The next entry of the buffer is the lowest one.
LEMMA OpenStatStep ==
  ASSUME PsInv, OpenStat
  PROVE  PsInv'
  <1>1. PsTypes /\ InitProcess /\ Progress
    BY DEF PsInv
  <1>2. /\ phase = "readdir" /\ entries # {} /\ cur' = Min(entries) /\ entries' = entries \ {cur'}
        /\ open' = IsProcess(cur') /\ phase' = (IF open' THEN "scan" ELSE "readdir")
        /\ task' = task /\ last' = last /\ events' = events /\ stay' = stay
        /\ opts' = opts /\ pos' = pos /\ tree' = tree /\ order' = order
        /\ printed' = printed /\ bad' = bad
    BY DEF OpenStat, kernel
  <1>3. entries \subseteq Nat /\ entries \subseteq Ids
    BY <1>1, IdsType DEF PsTypes
  <1>4. cur' \in entries /\ \A i \in entries : cur' <= i
    BY <1>2, <1>3, MinNat
  <1>5. open' = (task[cur'].kind = "process")
    BY <1>2 DEF IsProcess
  <1>6. open' \in BOOLEAN /\ phase' \in {"scan", "readdir"} /\ cur' \in Ids
    BY <1>2, <1>3, <1>4, <1>5
  <1>7. PsTypes'
    BY <1>1, <1>2, <1>6 DEF PsTypes, Reading
  <1>8. InitProcess'
    BY <1>1, <1>2, <1>5 DEF InitProcess, IsProcess
  <1>9. Progress'
    <2>1. \A i \in entries : i > cur /\ i <= pos /\ tree[i] = NULL
      BY <1>1 DEF Progress
    <2>2. \A i \in entries' : i > cur' /\ i <= pos /\ tree[i] = NULL
      BY <1>2, <1>3, <1>4, <2>1
    <2>3. cur' <= pos /\ \A i \in Ids : i > pos => tree[i] = NULL
      BY <1>1, <1>2, <1>4, <2>1 DEF Progress, Reading
    <2>4. phase' = "scan" /\ open' => IsProcess(cur)'
      BY <1>2, <1>5 DEF IsProcess
    <2> QED
      BY <1>2, <1>6, <2>2, <2>3, <2>4 DEF Progress, Linking
  <1>10. Nested' /\ Ordered' /\ Written'
    BY <1>2, <1>6, TreeStays DEF Reading
  <1> QED
    BY <1>7, <1>8, <1>9, <1>10 DEF PsInv
\* A step that sets the entry of the process that is being read.
LEMMA EntryStep ==
  ASSUME PsInv, phase \in Reading \ {"readdir"}, phase' \in Reading \cup {"overrun"},
         phase' # "scan",
         task' = task, last' = last, events' = events, stay' = stay, opts' = opts,
         entries' = entries, pos' = pos, cur' = cur, order' = order, printed' = printed,
         open' \in BOOLEAN, bad' \subseteq Ids, 1 \notin bad',
         NEW e, tree' = [tree EXCEPT ![cur] = e],
         e \in Entry, e.ppid # -1, cur = 1 => e.ppid = 0,
         IsFiniteSet(e.children), \A c \in e.children : c.thread,
         ~ShowCmdline => e.cmdline = "empty"
  PROVE  PsInv'
  <1>1. PsTypes /\ InitProcess /\ Progress /\ Nested
    BY DEF PsInv
  <1>2. cur \in Ids /\ cur <= pos
    BY <1>1 DEF Progress, Reading
  <1>3. tree \in [Ids -> Entry]
    BY <1>1 DEF PsTypes
  <1>4. tree' \in [Ids -> Entry] /\ tree'[cur] = e /\ \A i \in Ids : i # cur => tree'[i] = tree[i]
    BY <1>2, <1>3
  <1>5. PsTypes'
    BY <1>1, <1>4 DEF PsTypes
  <1>6. InitProcess'
    <2>1. tree'[1].ppid \in {-1, 0}
      BY <1>1, <1>4, IdsType DEF InitProcess
    <2> QED
      BY <1>1, <2>1 DEF InitProcess, IsProcess
  <1>7. Progress'
    <2>1. \A i \in entries : i \in Ids /\ i > cur /\ i <= pos /\ tree[i] = NULL
      BY <1>1 DEF Progress, PsTypes
    <2>2. \A i \in Ids : i > pos => tree[i] = NULL
      BY <1>1 DEF Progress, Reading
    <2>3. \A i \in Ids \cup {0} : i \in Int
      BY IdsType
    <2>4. pos \in Int
      BY <1>1, <2>3 DEF PsTypes
    <2>5. \A i \in entries : i > cur /\ i <= pos /\ tree'[i] = NULL
      BY <1>2, <1>4, <2>1, <2>3
    <2>6. \A i \in Ids : i > pos => tree'[i] = NULL
      BY <1>2, <1>4, <2>2, <2>3, <2>4
    <2> QED
      BY <1>2, <1>4, <2>5, <2>6 DEF Progress, Linking, Reading
  <1>8. Nested'
    <2>1. /\ \A i \in Ids : IsFiniteSet(tree[i].children) /\ Kids(i) = {}
          /\ \A i \in Ids : tree[i] # NULL => tree[i].ppid # -1
          /\ ~ShowCmdline => \A i \in Ids : tree[i].cmdline = "empty"
      BY <1>1 DEF Nested
    <2>2. \A i \in Ids : IsFiniteSet(tree'[i].children) /\ (Kids(i) = {})'
      BY <1>4, <2>1 DEF Kids
    <2>3. ~ShowCmdline => \A i \in Ids : tree'[i].cmdline = "empty"
      BY <1>4, <2>1
    <2>4. \A i \in Ids : tree'[i] # NULL => tree'[i].ppid # -1
      BY <1>4, <2>1
    <2>5. phase' \notin Linking
      BY DEF Linking, Reading
    <2> QED
      BY <2>2, <2>3, <2>4, <2>5 DEF Nested, ShowCmdline
  <1>9. Ordered' /\ Written'
    BY DEF Ordered, Written, Linking, Reading
  <1> QED
    BY <1>5, <1>6, <1>7, <1>8, <1>9 DEF PsInv

\* The stat line makes a node without children.
LEMMA ScanStatStep ==
  ASSUME PsInv, ScanStat
  PROVE  PsInv'
  <1>1. PsTypes /\ InitProcess /\ Progress
    BY DEF PsInv
  <1>2. /\ phase = "scan" /\ phase' \in {"overrun", "threads"} /\ open' = FALSE
        /\ bad' = (IF open /\ task[cur].name \notin Spaced THEN bad ELSE bad \cup {cur})
        /\ task' = task /\ last' = last /\ events' = events /\ stay' = stay
        /\ opts' = opts /\ entries' = entries /\ pos' = pos /\ cur' = cur /\ order' = order
        /\ printed' = printed
    BY DEF ScanStat, kernel
  <1>3. cur \in Ids /\ cur <= pos
    BY <1>1, <1>2 DEF Progress, Reading
  <1>4. task[cur].name \in Names \cup {0} /\ task[cur].parent \in Ids \cup {0}
    BY <1>1, <1>3 DEF PsTypes, Tasks
  <1>5. \E nm \in IF open THEN {task[cur].name} ELSE Names,
           pp \in IF open /\ task[cur].name \notin Spaced THEN {task[cur].parent} ELSE Ids \cup {0} :
             tree' = [tree EXCEPT ![cur] = [ppid |-> pp, name |-> nm, cmdline |-> "empty", children |-> {}]]
    BY DEF ScanStat
  <1>6. PICK nm \in Names \cup {0}, pp \in Ids \cup {0} :
             /\ tree' = [tree EXCEPT ![cur] = [ppid |-> pp, name |-> nm, cmdline |-> "empty", children |-> {}]]
             /\ open /\ task[cur].name \notin Spaced => pp = task[cur].parent
    BY <1>4, <1>5
  <1> DEFINE e == [ppid |-> pp, name |-> nm, cmdline |-> "empty", children |-> {}]
  <1>7. e \in Entry /\ e.children = {} /\ e.cmdline = "empty" /\ e.ppid = pp
    BY <1>6 DEF Entry
  <1>8. \A i \in Ids \cup {0} : i # -1
    BY IdsType
  <1>9. cur = 1 => open /\ task[cur].name \notin Spaced /\ task[cur].parent = 0
    BY <1>1, <1>2 DEF InitProcess
  <1>10. bad' \subseteq Ids /\ 1 \notin bad'
    BY <1>1, <1>2, <1>3, <1>9 DEF InitProcess, PsTypes
  <1>11. tree' = [tree EXCEPT ![cur] = e]
    BY <1>6
  <1> HIDE DEF e
  <1>12. e.ppid # -1 /\ (cur = 1 => e.ppid = 0)
    BY <1>6, <1>7, <1>8, <1>9
  <1>13. IsFiniteSet(e.children) /\ (\A c \in e.children : c.thread) /\ e.cmdline = "empty" /\ e \in Entry
    BY <1>7, FS_EmptySet
  <1>14. /\ phase \in Reading \ {"readdir"} /\ phase' \in Reading \cup {"overrun"} /\ phase' # "scan"
         /\ open' \in BOOLEAN
    BY <1>2 DEF Reading
  <1> QED
    BY <1>2, <1>10, <1>11, <1>12, <1>13, <1>14, EntryStep

\* The first children of a node are threads.
LEMMA ReadThreadsStep ==
  ASSUME PsInv, ReadThreads
  PROVE  PsInv'
  <1> DEFINE threads == IF ShowThreads THEN Threads(cur) ELSE {}
             nodes == {ChildNode(i, IF "t" \in opts THEN task[i].name ELSE tree[cur].name, TRUE) : i \in threads}
             e == [tree[cur] EXCEPT !.children = nodes]
  <1>1. PsTypes /\ InitProcess /\ Progress /\ Nested
    BY DEF PsInv
  <1>2. /\ phase = "threads" /\ phase' \in {"overrun", "cmdline"}
        /\ tree' = [tree EXCEPT ![cur].children = nodes]
        /\ task' = task /\ last' = last /\ events' = events /\ stay' = stay
        /\ opts' = opts /\ entries' = entries /\ pos' = pos /\ cur' = cur /\ open' = open
        /\ order' = order /\ printed' = printed /\ bad' = bad
    BY DEF ReadThreads, kernel
  <1>3. cur \in Ids /\ cur <= pos
    BY <1>1, <1>2 DEF Progress, Reading
  <1>4. tree[cur] \in Entry
    BY <1>1, <1>3 DEF PsTypes
  <1>5. nodes \subseteq Nodes /\ IsFiniteSet(nodes) /\ \A c \in nodes : c.thread
    <2>1. threads \subseteq Ids
      BY DEF Threads
    <2>2. IsFiniteSet(threads)
      BY <2>1, IdsType, FS_Subset
    <2>3. \A i \in threads : task[i].name \in Names \cup {0}
      BY <1>1, <2>1 DEF PsTypes, Tasks
    <2>4. tree[cur].name \in Names \cup {0}
      BY <1>4 DEF Entry
    <2>5. IsFiniteSet(nodes)
      <3> DEFINE f == [i \in threads |-> ChildNode(i, IF "t" \in opts THEN task[i].name ELSE tree[cur].name, TRUE)]
      <3>1. \A c \in nodes : \E i \in threads : f[i] = c
        OBVIOUS
      <3> HIDE DEF f, nodes, threads
      <3> QED
        BY <2>2, <3>1, ImageFinite
    <2>6. ASSUME NEW c \in nodes PROVE c \in Nodes /\ c.thread
      <3>1. PICK i \in threads : c = ChildNode(i, IF "t" \in opts THEN task[i].name ELSE tree[cur].name, TRUE)
        BY <2>6
      <3>2. (IF "t" \in opts THEN task[i].name ELSE tree[cur].name) \in Names \cup {0} /\ i \in Ids
        BY <2>1, <2>3, <2>4
      <3> QED
        BY <3>1, <3>2 DEF ChildNode, Nodes
    <2> QED
      BY <2>5, <2>6
  <1>6. tree' = [tree EXCEPT ![cur] = e]
    BY <1>2
  <1> HIDE DEF nodes, threads
  <1>7. e \in Entry /\ e.children = nodes /\ e.ppid = tree[cur].ppid /\ e.cmdline = tree[cur].cmdline
    BY <1>4, <1>5 DEF Entry
  <1> HIDE DEF e
  <1>8. e.ppid # -1 /\ (cur = 1 => e.ppid = 0)
    BY <1>1, <1>2, <1>7 DEF Progress, InitProcess
  <1>9. ~ShowCmdline => e.cmdline = "empty"
    BY <1>1, <1>3, <1>7 DEF Nested
  <1>10. /\ phase \in Reading \ {"readdir"} /\ phase' \in Reading \cup {"overrun"} /\ phase' # "scan"
         /\ open' \in BOOLEAN /\ bad' \subseteq Ids /\ 1 \notin bad'
    BY <1>1, <1>2 DEF Reading, PsTypes, InitProcess
  <1>11. IsFiniteSet(e.children) /\ \A c \in e.children : c.thread
    BY <1>5, <1>7
  <1> QED
    BY <1>2, <1>6, <1>7, <1>8, <1>9, <1>10, <1>11, EntryStep

\* The command line is set with option a only.
LEMMA ReadCmdlineStep ==
  ASSUME PsInv, ReadCmdline
  PROVE  PsInv'
  <1>1. PsTypes /\ InitProcess /\ Progress /\ Nested
    BY DEF PsInv
  <1>2. /\ phase = "cmdline" /\ phase' = "readdir"
        /\ task' = task /\ last' = last /\ events' = events /\ stay' = stay
        /\ opts' = opts /\ entries' = entries /\ pos' = pos /\ cur' = cur /\ open' = open
        /\ order' = order /\ printed' = printed /\ bad' = bad
    BY DEF ReadCmdline, kernel
  <1>3. cur \in Ids /\ cur <= pos
    BY <1>1, <1>2 DEF Progress, Reading
  <1>4. PICK cmd \in {"empty", "command", "()"} :
          /\ ~ShowCmdline => cmd = "empty"
          /\ tree' = [tree EXCEPT ![cur] = [tree[cur] EXCEPT !.cmdline = cmd]]
    BY DEF ReadCmdline
  <1>5. tree[cur] \in Entry
    BY <1>1, <1>3 DEF PsTypes
  <1> DEFINE e == [tree[cur] EXCEPT !.cmdline = cmd]
  <1>6. tree' = [tree EXCEPT ![cur] = e]
    BY <1>4
  <1>7. e \in Entry /\ e.children = tree[cur].children /\ e.ppid = tree[cur].ppid /\ e.cmdline = cmd
    BY <1>5 DEF Entry
  <1> HIDE DEF e
  <1>8. e.ppid # -1 /\ (cur = 1 => e.ppid = 0)
    BY <1>1, <1>2, <1>7 DEF Progress, InitProcess
  <1>9. ~ShowCmdline => e.cmdline = "empty"
    BY <1>4, <1>7
  <1>10. /\ phase \in Reading \ {"readdir"} /\ phase' \in Reading \cup {"overrun"} /\ phase' # "scan"
         /\ open' \in BOOLEAN /\ bad' \subseteq Ids /\ 1 \notin bad'
    BY <1>1, <1>2 DEF Reading, PsTypes, InitProcess
  <1>11. IsFiniteSet(e.children) /\ \A c \in e.children : c.thread
    <2>1. IsFiniteSet(tree[cur].children) /\ Kids(cur) = {}
      BY <1>1, <1>2, <1>3 DEF Nested, Reading
    <2> QED
      BY <1>7, <2>1 DEF Kids
  <1> QED
    BY <1>2, <1>6, <1>7, <1>8, <1>9, <1>10, <1>11, EntryStep
-----------------------------------------------------------------------------
(* Linking, sorting and printing.                                          *)

\* build_process_tree adds the processes that name a node as their parent.
LEMMA LinkStep ==
  ASSUME PsInv, Link
  PROVE  PsInv'
  <1>1. PsTypes /\ InitProcess /\ Progress /\ Nested
    BY DEF PsInv
  <1>2. /\ phase = "link" /\ phase' \in {"overrun", "sort"} /\ pos' = 1
        /\ tree' = [i \in Ids |-> IF tree[i] = NULL THEN NULL
                                  ELSE [tree[i] EXCEPT !.children = @ \cup Linked(i)]]
        /\ task' = task /\ last' = last /\ events' = events /\ stay' = stay
        /\ opts' = opts /\ entries' = entries /\ cur' = cur /\ open' = open
        /\ order' = order /\ printed' = printed /\ bad' = bad
    BY DEF Link, kernel
  <1>3. entries = {}
    BY <1>1, <1>2 DEF Progress
  <1>4. tree \in [Ids -> Entry]
    BY <1>1 DEF PsTypes
  <1>5. ASSUME NEW i \in Ids
        PROVE  Linked(i) \subseteq Nodes /\ IsFiniteSet(Linked(i)) /\ \A c \in Linked(i) : ~c.thread
    <2> DEFINE from == {k \in Ids : tree[k] # NULL /\ tree[k].ppid = i}
               f == [j \in from |-> ChildNode(j, tree[j].name, FALSE)]
    <2>1. IsFiniteSet(from)
      BY IdsType, FS_Subset
    <2>2. \A c \in Linked(i) : \E j \in from : f[j] = c
      BY DEF Linked
    <2>3. IsFiniteSet(Linked(i))
      <3> HIDE DEF f, from
      <3> QED
        BY <2>1, <2>2, ImageFinite
    <2>4. ASSUME NEW c \in Linked(i) PROVE c \in Nodes /\ ~c.thread
      <3>1. PICK j \in Ids : c = ChildNode(j, tree[j].name, FALSE)
        BY DEF Linked
      <3>2. tree[j].name \in Names \cup {0}
        BY <1>4 DEF Entry
      <3> QED
        BY <3>1, <3>2 DEF ChildNode, Nodes
    <2> QED
      BY <2>3, <2>4
  <1>6. ASSUME NEW i \in Ids, tree[i] = NULL
        PROVE  tree'[i] = NULL /\ tree'[i] \in Entry
    BY <1>2, <1>4, <1>6
  <1>7. ASSUME NEW i \in Ids, tree[i] # NULL
        PROVE  /\ tree'[i] \in Entry /\ tree'[i].children = tree[i].children \cup Linked(i)
               /\ tree'[i].ppid = tree[i].ppid /\ tree'[i].name = tree[i].name
               /\ tree'[i].cmdline = tree[i].cmdline
    <2>1. tree'[i] = [tree[i] EXCEPT !.children = tree[i].children \cup Linked(i)]
      BY <1>2, <1>7
    <2>2. tree[i] \in Entry /\ Linked(i) \subseteq Nodes
      BY <1>4, <1>5
    <2> HIDE DEF Linked
    <2> QED
      BY <2>1, <2>2 DEF Entry
  <1>8. \A i \in Ids : /\ tree'[i].ppid = tree[i].ppid /\ tree'[i].name = tree[i].name
                       /\ tree'[i].cmdline = tree[i].cmdline
    BY <1>6, <1>7
  <1>9. \A i \in Ids : tree'[i] = NULL <=> tree[i] = NULL
    <2>1. NULL.ppid = -1
      BY DEF NULL
    <2>2. \A i \in Ids : tree[i] # NULL => tree[i].ppid # -1
      BY <1>1 DEF Nested
    <2> QED
      BY <1>6, <1>8, <2>1, <2>2
  <1>10. \A i \in Ids : Linked(i)' = Linked(i)
    BY <1>8, <1>9 DEF Linked
  <1>11. PsTypes'
    <2>1. tree' \in [Ids -> Entry]
      BY <1>2, <1>6, <1>7
    <2>2. pos' \in Ids \cup {0}
      BY <1>2, IdsType
    <2>3. phase' \in Reading \cup {"link", "overrun"} \cup Linking
      BY <1>2 DEF Linking
    <2> QED
      BY <1>1, <1>2, <2>1, <2>2, <2>3 DEF PsTypes
  <1>12. InitProcess'
    BY <1>1, <1>2, <1>8, IdsType DEF InitProcess, IsProcess
  <1>13. Progress'
    BY <1>2, <1>3 DEF Progress, Reading
  <1>14. Nested'
    <2>1. \A i \in Ids : IsFiniteSet(tree'[i].children) /\ (tree'[i] # NULL => tree'[i].ppid # -1)
      <3> SUFFICES ASSUME NEW i \in Ids
                   PROVE  IsFiniteSet(tree'[i].children) /\ (tree'[i] # NULL => tree'[i].ppid # -1)
        OBVIOUS
      <3>1. IsFiniteSet(tree[i].children) /\ (tree[i] # NULL => tree[i].ppid # -1)
        BY <1>1 DEF Nested
      <3>2. IsFiniteSet(tree[i].children \cup Linked(i))
        BY <1>5, <3>1, FS_Union
      <3> QED
        BY <1>6, <1>7, <1>8, <1>9, <3>1, <3>2
    <2>2. ~ShowCmdline => \A i \in Ids : tree'[i].cmdline = "empty"
      BY <1>1, <1>8 DEF Nested
    <2>3. \A i \in Ids : Kids(i)' = IF tree[i] = NULL THEN {} ELSE Linked(i)
      <3> SUFFICES ASSUME NEW i \in Ids PROVE Kids(i)' = IF tree[i] = NULL THEN {} ELSE Linked(i)
        OBVIOUS
      <3>1. Kids(i) = {}
        BY <1>1, <1>2 DEF Nested
      <3>2. CASE tree[i] = NULL
        <4>1. tree'[i].children = tree[i].children
          BY <1>6, <3>2
        <4> QED
          BY <3>1, <3>2, <4>1 DEF Kids
      <3>3. CASE tree[i] # NULL
        <4>1. tree'[i].children = tree[i].children \cup Linked(i)
          BY <1>7, <3>3
        <4>2. \A c \in Linked(i) : ~c.thread
          BY <1>5
        <4> HIDE DEF Linked
        <4> QED
          BY <3>1, <3>3, <4>1, <4>2 DEF Kids
      <3> QED
        BY <3>2, <3>3
    <2>4. \A i \in Ids : (Kids(i) = IF tree[i] = NULL THEN {} ELSE Linked(i))'
      BY <1>9, <1>10, <2>3
    <2>5. phase' \notin Reading \cup {"link"}
      BY <1>2 DEF Reading
    <2> QED
      BY <1>2, <2>1, <2>2, <2>4, <2>5 DEF Nested, ShowCmdline
  <1>15. Ordered' /\ Written'
    <2>1. \A i \in Ids : ~(i < 1)
      BY IdsType
    <2> QED
      BY <1>2, <2>1, IdsType DEF Ordered, Written, Linking
  <1> QED
    BY <1>11, <1>12, <1>13, <1>14, <1>15 DEF PsInv

\* sort_children of the next node leaves the others in order.
LEMMA SortChildrenStep ==
  ASSUME PsInv, SortChildren
  PROVE  PsInv'
  <1>1. PsTypes /\ InitProcess /\ Progress /\ Nested /\ Ordered
    BY DEF PsInv
  <1>2. /\ phase = "sort"
        /\ task' = task /\ last' = last /\ events' = events /\ stay' = stay
        /\ opts' = opts /\ entries' = entries /\ cur' = cur /\ open' = open
        /\ tree' = tree /\ printed' = printed /\ bad' = bad
        /\ \/ pos + 1 \in Ids /\ pos' = pos + 1 /\ phase' = phase
           \/ pos + 1 \notin Ids /\ pos' = pos /\ phase' = "print"
    BY DEF SortChildren, kernel
  <1>3. PICK s \in SetToSeqs(tree[pos].children) :
          /\ \A k \in 1..(Len(s) - 1) : NotAfter(s[k], s[k + 1])
          /\ order' = [order EXCEPT ![pos] = s]
    BY DEF SortChildren
  <1>4. pos \in Ids /\ pos \in Nat
    BY <1>1, <1>2, IdsType DEF Ordered
  <1>5. order \in [Ids -> Seq(Nodes)] /\ tree[pos].children \subseteq Nodes /\ IsFiniteSet(tree[pos].children)
    BY <1>1, <1>4 DEF PsTypes, Nested, Entry
  <1>6. s \in Seq(Nodes)
    <2>1. Cardinality(tree[pos].children) \in Nat
      BY <1>5, FS_CardinalityType
    <2>2. s \in [1..Cardinality(tree[pos].children) -> tree[pos].children]
      BY <1>3 DEF SetToSeqs
    <2> QED
      BY <1>5, <2>1, <2>2
  <1>7. order' \in [Ids -> Seq(Nodes)] /\ order'[pos] = s /\ \A i \in Ids : i # pos => order'[i] = order[i]
    BY <1>3, <1>4, <1>5, <1>6
  <1>8. phase' \in {"sort", "print"} /\ pos' \in Ids
    BY <1>2, <1>4
  <1>9. PsTypes'
    BY <1>1, <1>2, <1>7, <1>8 DEF PsTypes, Linking
  <1>10. InitProcess'
    BY <1>1, <1>2, <1>8 DEF InitProcess, IsProcess
  <1>11. Progress'
    BY <1>1, <1>2, <1>8 DEF Progress, Reading, Linking
  <1>12. Nested'
    <2>1. /\ \A i \in Ids : IsFiniteSet(tree[i].children) /\ (tree[i] # NULL => tree[i].ppid # -1)
          /\ ~ShowCmdline => \A i \in Ids : tree[i].cmdline = "empty"
          /\ \A i \in Ids : Kids(i) = IF tree[i] = NULL THEN {} ELSE Linked(i)
      BY <1>1, <1>2 DEF Nested, Linking
    <2>2. \A i \in Ids : Kids(i)' = Kids(i) /\ Linked(i)' = Linked(i)
      BY <1>2 DEF Kids, Linked
    <2>3. phase' \notin Reading \cup {"link"}
      BY <1>8 DEF Reading
    <2> QED
      BY <1>2, <2>1, <2>2, <2>3 DEF Nested, ShowCmdline
  <1>13. Ordered'
    <2>1. \A a, b : NotAfter(a, b)' <=> NotAfter(a, b)
      BY <1>2 DEF NotAfter, SortByPid
    <2>2. ASSUME NEW i \in Ids, i = pos PROVE IsOrder(i)'
      <3>1. order'[i] = s /\ tree'[i].children = tree[i].children /\ s \in SetToSeqs(tree[i].children)
        BY <1>2, <1>3, <1>7, <2>2
      <3> QED
        BY <1>3, <2>1, <3>1 DEF IsOrder
    <2>3. ASSUME NEW i \in Ids, i < pos PROVE IsOrder(i)'
      <3>1. IsOrder(i) /\ i # pos
        BY <1>1, <1>2, <1>4, <2>3, IdsType DEF Ordered, Linking
      <3> QED
        BY <1>2, <1>7, <2>1, <3>1 DEF IsOrder
    <2>4. ASSUME NEW i \in Ids, phase' = "sort" => i < pos' PROVE i <= pos
      <3>1. i \in Nat /\ Cardinality(Ids) \in Nat /\ Ids = 1..Cardinality(Ids)
        BY IdsType
      <3>2. CASE pos + 1 \in Ids
        BY <1>2, <1>4, <2>4, <3>1, <3>2
      <3>3. CASE pos + 1 \notin Ids
        BY <1>4, <3>1, <3>3
      <3> QED
        BY <3>2, <3>3
    <2>5. \A i \in Ids : i <= pos => i < pos \/ i = pos
      BY <1>4, IdsType
    <2>6. \A i \in Ids : (phase' = "sort" => i < pos') => IsOrder(i)'
      BY <2>2, <2>3, <2>4, <2>5
    <2> QED
      BY <1>8, <2>6 DEF Ordered
  <1>14. Written'
    BY <1>8 DEF Written
  <1> QED
    BY <1>9, <1>10, <1>11, <1>12, <1>13, <1>14 DEF PsInv
\* What is printed is a function of the tree, the order of the children and the
\* options.
LEMMA SameOutput ==
  ASSUME tree' = tree, order' = order, opts' = opts, NEW junk
  PROVE  Output(junk)' = Output(junk)
  <1>1. \A c : IsLeaf(c)' <=> IsLeaf(c)
    BY DEF IsLeaf
  <1>2. \A cs, i : count_same_name_children(cs, i)' = count_same_name_children(cs, i)
    BY <1>1 DEF count_same_name_children
  <1>3. \A cs, i : TurnEnd(cs, i)' = TurnEnd(cs, i)
    BY <1>2 DEF TurnEnd, ShowCompact
  <1>4. \A cs : Turns(cs)' = Turns(cs)
    BY <1>3 DEF Turns
  <1>5. \A c, n, j : Line(c, n, j)' = Line(c, n, j)
    BY DEF Line
  <1>6. \A p, j : ChildLines(p, j)' = ChildLines(p, j)
    BY <1>3, <1>4, <1>5 DEF ChildLines
  <1>7. Called' = Called
    BY <1>6 DEF Called
  <1> QED
    BY <1>5, <1>6, <1>7 DEF Output

\* Printing keeps the tree that was printed.
LEMMA PrintStep ==
  ASSUME PsInv, print_process_tree
  PROVE  PsInv'
  <1>1. PsTypes /\ InitProcess /\ Progress /\ Nested /\ Ordered
    BY DEF PsInv
  <1>2. /\ phase = "print" /\ phase' = "done"
        /\ task' = task /\ last' = last /\ events' = events /\ stay' = stay
        /\ opts' = opts /\ entries' = entries /\ pos' = pos /\ cur' = cur /\ open' = open
        /\ tree' = tree /\ order' = order /\ bad' = bad
    BY DEF print_process_tree, kernel
  <1>3. PICK junk \in BOOLEAN : printed' = Output(junk)
    BY DEF print_process_tree
  <1>4. PsTypes'
    BY <1>1, <1>2 DEF PsTypes, Linking
  <1>5. InitProcess'
    BY <1>1, <1>2 DEF InitProcess, IsProcess
  <1>6. Progress'
    BY <1>1, <1>2 DEF Progress, Reading, Linking
  <1>7. Nested'
    <2>1. \A i \in Ids : Kids(i)' = Kids(i) /\ Linked(i)' = Linked(i)
      BY <1>2 DEF Kids, Linked
    <2>2. phase' \notin Reading \cup {"link"}
      BY <1>2 DEF Reading
    <2>3. /\ \A i \in Ids : IsFiniteSet(tree[i].children) /\ (tree[i] # NULL => tree[i].ppid # -1)
          /\ ~ShowCmdline => \A i \in Ids : tree[i].cmdline = "empty"
          /\ \A i \in Ids : Kids(i) = IF tree[i] = NULL THEN {} ELSE Linked(i)
      BY <1>1, <1>2 DEF Nested, Linking
    <2> QED
      BY <1>2, <2>1, <2>2, <2>3 DEF Nested, ShowCmdline
  <1>8. Ordered'
    <2>1. \A a, b : NotAfter(a, b)' <=> NotAfter(a, b)
      BY <1>2 DEF NotAfter, SortByPid
    <2>2. \A i \in Ids : IsOrder(i)
      BY <1>1, <1>2 DEF Ordered, Linking
    <2>3. \A i \in Ids : IsOrder(i)'
      BY <1>2, <2>1, <2>2 DEF IsOrder
    <2> QED
      BY <1>2, <2>3 DEF Ordered
  <1>9. Written'
    BY <1>2, <1>3, SameOutput DEF Written
  <1> QED
    BY <1>4, <1>5, <1>6, <1>7, <1>8, <1>9 DEF PsInv

\* A step of nobody.
LEMMA PstreeStutters ==
  ASSUME PsInv, UNCHANGED ps_vars
  PROVE  PsInv'
  <1>1. PsTypes /\ InitProcess /\ Progress /\ Nested /\ Ordered /\ Written
    BY DEF PsInv
  <1>2. /\ phase' = phase /\ printed' = printed
        /\ task' = task /\ last' = last /\ events' = events /\ stay' = stay
        /\ opts' = opts /\ entries' = entries /\ pos' = pos /\ cur' = cur /\ open' = open
        /\ tree' = tree /\ order' = order /\ bad' = bad
    BY DEF ps_vars, kernel
  <1>3. PsTypes' /\ InitProcess' /\ Progress'
    BY <1>1, <1>2 DEF PsTypes, InitProcess, Progress, IsProcess
  <1>4. Nested'
    <2>1. \A i \in Ids : Kids(i)' = Kids(i) /\ Linked(i)' = Linked(i)
      BY <1>2 DEF Kids, Linked
    <2> QED
      BY <1>1, <1>2, <2>1 DEF Nested, ShowCmdline
  <1>5. Ordered'
    <2>1. \A a, b : NotAfter(a, b)' <=> NotAfter(a, b)
      BY <1>2 DEF NotAfter, SortByPid
    <2>2. \A i \in Ids : IsOrder(i) => IsOrder(i)'
      BY <1>2, <2>1 DEF IsOrder
    <2> QED
      BY <1>1, <1>2, <2>2 DEF Ordered
  <1>6. Written'
    BY <1>1, <1>2, SameOutput DEF Written
  <1> QED
    BY <1>3, <1>4, <1>5, <1>6 DEF PsInv

\* At the start nothing is read and init is there.
LEMMA PstreeInitInv == PstreeInit => PsInv
  <1> SUFFICES ASSUME PstreeInit PROVE PsInv
    OBVIOUS
  <1>1. /\ last = FIRST /\ events = 0 /\ opts \in OptionSets
        /\ phase = "readdir" /\ entries = {} /\ pos = 0 /\ cur = 0 /\ open = FALSE
        /\ tree = [i \in Ids |-> NULL] /\ order = [i \in Ids |-> <<>>] /\ printed = {}
        /\ stay = {i \in Ids : IsProcess(i)} /\ bad = {}
    BY DEF PstreeInit
  <1>2. PICK par \in [1..FIRST -> 1..FIRST], nm \in [1..FIRST -> Names], th \in SUBSET (2..FIRST) :
          /\ par[1] = 1 /\ nm[1] = Min(Names \ Spaced)
          /\ \A i \in 2..FIRST : /\ par[par[par[i]]] = 1
                                /\ par[i] \notin th
                                /\ ~Recycle => par[i] < i
          /\ task = FirstTasks(par, nm, th)
    BY DEF PstreeInit
  <1>3. FIRST \in Nat /\ 1 \in 1..FIRST /\ 1..FIRST \subseteq Ids /\ \A i \in Ids : i > FIRST \/ i \in 1..FIRST
    BY IdsType
  <1>4. Min(Names \ Spaced) \in Names \ Spaced
    <2>1. (Names \ Spaced) \subseteq Nat /\ (Names \ Spaced) # {}
      BY PstreeAssumption
    <2> QED
      BY <2>1, MinNat
  <1>5. task \in [Ids -> Tasks]
    <2>1. ASSUME NEW i \in Ids PROVE task[i] \in Tasks
      <3>1. CASE i > FIRST
        BY <1>2, <3>1 DEF Tasks, NoTask, FirstTasks
      <3>2. CASE ~(i > FIRST)
        <4>1. i \in 1..FIRST
          BY <1>3, <3>2
        <4>2. nm[i] \in Names /\ par[i] \in Ids
          BY <1>2, <1>3, <4>1
        <4> QED
          BY <1>2, <3>2, <4>2 DEF Tasks, FirstTasks
      <3> QED
        BY <3>1, <3>2
    <2>2. task = [i \in Ids |-> task[i]]
      BY <1>2 DEF FirstTasks
    <2> QED
      BY <2>1, <2>2
  <1>6. NULL \in Entry /\ NULL.children = {} /\ NULL.ppid = -1 /\ NULL.cmdline = "empty"
    BY DEF NULL, Entry
  <1>7. PsTypes
    <2>1. tree \in [Ids -> Entry] /\ order \in [Ids -> Seq(Nodes)]
      BY <1>1, <1>6
    <2>2. last \in Ids /\ events \in 0..MaxEvents /\ opts \in OptionSets
      BY <1>1, IdsType, PstreeAssumption
    <2> QED
      BY <1>1, <1>5, <2>1, <2>2 DEF PsTypes, Reading
  <1>8. InitProcess
    <2>1. task[1] = [kind |-> "process", parent |-> 0, name |-> nm[1]]
      BY <1>2, <1>3, IdsType DEF FirstTasks
    <2> QED
      BY <1>1, <1>2, <1>4, <1>6, <2>1, IdsType DEF InitProcess, IsProcess
  <1>9. Progress
    BY <1>1, IdsType DEF Progress, Linking
  <1>10. Nested
    BY <1>1, <1>6, FS_EmptySet DEF Nested, Kids, Linking
  <1>11. Ordered /\ Written
    BY <1>1 DEF Ordered, Written, Linking
  <1> QED
    BY <1>7, <1>8, <1>9, <1>10, <1>11 DEF PsInv

\* All steps keep the invariant.
LEMMA PstreeNextInv == PsInv /\ [PstreeNext]_ps_vars => PsInv'
  <1> SUFFICES ASSUME PsInv, [PstreeNext]_ps_vars PROVE PsInv'
    OBVIOUS
  <1>1. ASSUME NEW p \in Ids, NEW nm \in Names, NEW kind \in {"process", "thread"}, NewTask(p, kind, nm)
        PROVE  PsInv'
    BY <1>1, NewTaskStep
  <1>2. ASSUME NEW i \in Ids, ExitProcess(i) PROVE PsInv'
    BY <1>2, ExitProcessStep
  <1>3. ASSUME NEW i \in Ids, ExitThread(i) PROVE PsInv'
    BY <1>3, ExitThreadStep
  <1>4. CASE ReadDir
    BY <1>4, ReadDirStep
  <1>5. CASE OpenStat
    BY <1>5, OpenStatStep
  <1>6. CASE ScanStat
    BY <1>6, ScanStatStep
  <1>7. CASE ReadThreads
    BY <1>7, ReadThreadsStep
  <1>8. CASE ReadCmdline
    BY <1>8, ReadCmdlineStep
  <1>9. CASE Link
    BY <1>9, LinkStep
  <1>10. CASE SortChildren
    BY <1>10, SortChildrenStep
  <1>11. CASE print_process_tree
    BY <1>11, PrintStep
  <1>12. CASE UNCHANGED ps_vars
    BY <1>12, PstreeStutters
  <1> QED
    BY <1>1, <1>2, <1>3, <1>4, <1>5, <1>6, <1>7, <1>8, <1>9, <1>10, <1>11, <1>12 DEF PstreeNext

\* pstree.c: in all interleavings of reading and of processes that come and go the
\* tree that is built, sorted and printed is that of the stat lines that were read.
THEOREM PstreeInvariant == PstreeSpec => []PsInv
  BY PstreeInitInv, PstreeNextInv, PTL DEF PstreeSpec
-----------------------------------------------------------------------------
(* The loop of print_process_tree over the children cs of a node.          *)

\* A turn that begins at i ends at i or later, and not behind the last child; it
\* skips children only if it has found leaves of the same name.
LEMMA TurnEnds ==
  ASSUME NEW cs \in Seq(Nodes), NEW i \in 1..Len(cs)
  PROVE  /\ TurnEnd(cs, i) \in i..Len(cs)
         /\ count_same_name_children(cs, i) \in Nat
         /\ TurnEnd(cs, i) # i => /\ ShowCompact /\ count_same_name_children(cs, i) > 1
                                 /\ TurnEnd(cs, i) = i + count_same_name_children(cs, i) - 1
         /\ ~ShowCompact => TurnEnd(cs, i) = i
  <1> DEFINE A == {j \in i..Len(cs) : SameName(cs[j], cs[i]) /\ IsLeaf(cs[j])}
  <1>1. Len(cs) \in Nat /\ i \in Nat /\ i >= 1 /\ i <= Len(cs)
    OBVIOUS
  <1>2. IsFiniteSet(i..Len(cs)) /\ Cardinality(i..Len(cs)) = Len(cs) - i + 1
    BY <1>1, FS_Interval
  <1>3. A \subseteq i..Len(cs)
    OBVIOUS
  <1>4. IsFiniteSet(A) /\ Cardinality(A) <= Len(cs) - i + 1
    BY <1>2, <1>3, FS_Subset
  <1>5. Cardinality(A) \in Nat
    BY <1>4, FS_CardinalityType
  <1>6. count_same_name_children(cs, i) = Cardinality(A)
    BY DEF count_same_name_children
  <1> HIDE DEF A
  <1> QED
    BY <1>1, <1>4, <1>5, <1>6 DEF TurnEnd

\* Where the loop goes on after the turn that begins at i.
LoopStep(cs) == [i \in 1..(Len(cs) + 1) |-> IF i > Len(cs) THEN {} ELSE {TurnEnd(cs, i) + 1}]

\* Turns is the closure of LoopStep.
LEMMA LoopSteps ==
  ASSUME NEW cs \in Seq(Nodes)
  PROVE  /\ LoopStep(cs) \in [1..(Len(cs) + 1) -> SUBSET (1..(Len(cs) + 1))]
         /\ Turns(cs) = Closure(LoopStep(cs), 1) \cap 1..Len(cs)
         /\ 1 \in 1..(Len(cs) + 1)
         /\ \A i \in 1..Len(cs) : i \in 1..(Len(cs) + 1) /\ LoopStep(cs)[i] = {TurnEnd(cs, i) + 1}
  <1>1. Len(cs) \in Nat /\ DOMAIN cs = 1..Len(cs)
    OBVIOUS
  <1>2. \A i \in 1..Len(cs) : TurnEnd(cs, i) \in i..Len(cs)
    BY TurnEnds
  <1>3. \A i \in 1..Len(cs) : TurnEnd(cs, i) + 1 \in 1..(Len(cs) + 1)
    BY <1>1, <1>2
  <1>4. \A i \in 1..(Len(cs) + 1) : i > Len(cs) \/ i \in 1..Len(cs)
    BY <1>1
  <1>5. \A i \in 1..(Len(cs) + 1) : LoopStep(cs)[i] \in SUBSET (1..(Len(cs) + 1))
    BY <1>3, <1>4 DEF LoopStep
  <1>6. LoopStep(cs) \in [1..(Len(cs) + 1) -> SUBSET (1..(Len(cs) + 1))]
    BY <1>5 DEF LoopStep
  <1>7. Turns(cs) = Closure(LoopStep(cs), 1) \cap 1..Len(cs)
    BY <1>1 DEF Turns, LoopStep
  <1>8. \A i \in 1..Len(cs) : i \in 1..(Len(cs) + 1) /\ LoopStep(cs)[i] = {TurnEnd(cs, i) + 1}
    <2>1. \A i \in 1..Len(cs) : i \in 1..(Len(cs) + 1) /\ ~(i > Len(cs))
      BY <1>1
    <2> QED
      BY <2>1 DEF LoopStep
  <1> QED
    BY <1>1, <1>6, <1>7, <1>8

\* Each child is reached or skipped in some turn,
LEMMA TurnsCover ==
  ASSUME NEW cs \in Seq(Nodes), NEW k \in 1..Len(cs)
  PROVE  \E i \in Turns(cs) : i \in 1..Len(cs) /\ i <= k /\ k <= TurnEnd(cs, i)
  <1> DEFINE C == Closure(LoopStep(cs), 1)
             N == Len(cs)
             S == {0} \cup {n \in 1..N : \E i \in Turns(cs) : i \in 1..N /\ i <= n /\ n <= TurnEnd(cs, i)}
  <1>1. N \in Nat /\ \A i \in 1..N : TurnEnd(cs, i) \in i..N
    BY TurnEnds
  <1>2. 1 \in C /\ (\A z \in C : LoopStep(cs)[z] \subseteq C) /\ Turns(cs) = C \cap 1..N
    BY LoopSteps, ClosureGrows
  <1>3. \A i \in 1..N : LoopStep(cs)[i] = {TurnEnd(cs, i) + 1}
    BY LoopSteps
  <1> HIDE DEF C, N
  <1>4. ASSUME NEW n \in 0..(N - 1), n \in S PROVE n + 1 \in S
    <2>1. n + 1 \in 1..N
      BY <1>1
    <2>2. CASE n = 0
      <3>1. 1 \in 1..N
        BY <1>1, <2>1, <2>2
      <3>2. 1 \in Turns(cs) /\ 1 <= TurnEnd(cs, 1)
        BY <1>1, <1>2, <3>1
      <3> QED
        BY <2>1, <2>2, <3>1, <3>2
    <2>3. CASE n # 0
      <3>1. PICK i \in Turns(cs) : i \in 1..N /\ i <= n /\ n <= TurnEnd(cs, i)
        BY <1>4, <2>3
      <3>2. CASE n < TurnEnd(cs, i)
        <4>1. i <= n + 1 /\ n + 1 <= TurnEnd(cs, i)
          BY <1>1, <3>1, <3>2
        <4> QED
          BY <2>1, <3>1, <4>1
      <3>3. CASE n = TurnEnd(cs, i)
        <4>1. n + 1 \in C
          BY <1>2, <1>3, <3>1, <3>3
        <4>2. n + 1 \in Turns(cs) /\ n + 1 <= TurnEnd(cs, n + 1)
          BY <1>1, <1>2, <2>1, <4>1
        <4> QED
          BY <2>1, <4>2
      <3>4. TurnEnd(cs, i) \in Int /\ n \in Int
        BY <1>1, <3>1
      <3> QED
        BY <3>1, <3>2, <3>3, <3>4
    <2> QED
      BY <2>2, <2>3
  <1>5. 0 \in S
    OBVIOUS
  <1> HIDE DEF S
  <1>6. 0..N \subseteq S
    BY <1>1, <1>4, <1>5, LoopInduction
  <1>7. k \in S /\ k # 0 /\ k \in 1..N
    BY <1>1, <1>6 DEF N
  <1> QED
    BY <1>7 DEF S, N

\* and in one only.
LEMMA TurnsApart ==
  ASSUME NEW cs \in Seq(Nodes), NEW a \in Turns(cs), NEW b \in Turns(cs), a < b
  PROVE  TurnEnd(cs, a) < b
  <1> DEFINE C == Closure(LoopStep(cs), 1)
             N == Len(cs)
             B == {w \in Turns(cs) : \E i \in Turns(cs) : i < w /\ w <= TurnEnd(cs, i)}
  <1>1. N \in Nat /\ \A i \in 1..N : TurnEnd(cs, i) \in i..N
    BY TurnEnds
  <1>2. 1 \in C /\ (\A z \in C : LoopStep(cs)[z] \subseteq C) /\ C \subseteq 1..(N + 1)
    BY LoopSteps, ClosureGrows
  <1>3. Turns(cs) = C \cap 1..N /\ 1 \in 1..(N + 1)
    BY LoopSteps
  <1>4. LoopStep(cs) \in [1..(N + 1) -> SUBSET (1..(N + 1))]
    BY LoopSteps
  <1>5. \A z \in 1..(N + 1) : LoopStep(cs)[z] = IF z > N THEN {} ELSE {TurnEnd(cs, z) + 1}
    BY DEF LoopStep
  <1>6. SUFFICES ASSUME B # {} PROVE FALSE
    <2>1. a \in 1..N /\ b \in Int /\ TurnEnd(cs, a) \in Int
      BY <1>1, <1>3
    <2> QED
      BY <2>1
  <1>7. PICK w \in B : \A y \in B : w <= y
    <2>1. B \subseteq Nat
      BY <1>1, <1>3
    <2> HIDE DEF B
    <2> QED
      BY <1>6, <2>1, LeastNat
  <1>8. PICK i \in Turns(cs) : i < w /\ w <= TurnEnd(cs, i)
    BY <1>7
  <1>9. w \in C /\ w \in 1..N /\ i \in 1..N /\ w # 1
    BY <1>1, <1>3, <1>7, <1>8
  <1>10. PICK v \in C : w \in LoopStep(cs)[v]
    <2>1. SUFFICES ASSUME \A v \in C : w \notin LoopStep(cs)[v] PROVE FALSE
      OBVIOUS
    <2> DEFINE S == C \ {w}
    <2>2. S \in SUBSET (1..(N + 1)) /\ 1 \in S /\ \A z \in S : LoopStep(cs)[z] \subseteq S
      BY <1>2, <1>9, <2>1
    <2>3. w \notin S
      OBVIOUS
    <2> HIDE DEF S
    <2>4. C \subseteq S
      BY <1>3, <1>4, <2>2, ClosureLeast
    <2> QED
      BY <1>9, <2>3, <2>4
  <1> HIDE DEF C, N
  <1>11. v \in Turns(cs) /\ v \in 1..N /\ w = TurnEnd(cs, v) + 1
    <2>1. v \in 1..(N + 1)
      BY <1>2, <1>10
    <2>2. ~(v > N) /\ w = TurnEnd(cs, v) + 1
      BY <1>5, <1>10, <2>1
    <2>3. v \in 1..N
      BY <1>1, <2>1, <2>2
    <2> QED
      BY <1>3, <1>10, <2>2, <2>3
  <1>12. TurnEnd(cs, v) \in v..N /\ TurnEnd(cs, i) \in i..N
    BY <1>1, <1>9, <1>11
  <1>13. v < w /\ v # i
    BY <1>1, <1>8, <1>9, <1>11, <1>12
  <1>14. CASE v < i
    <2>1. i <= TurnEnd(cs, v)
      BY <1>1, <1>8, <1>9, <1>11, <1>12
    <2>2. i \in B
      BY <1>8, <1>11, <1>14, <2>1
    <2> QED
      BY <1>7, <1>8, <1>9, <2>2
  <1>15. CASE v > i
    <2>1. v <= TurnEnd(cs, i)
      BY <1>1, <1>8, <1>9, <1>11, <1>12, <1>13
    <2>2. v \in B
      BY <1>8, <1>9, <1>11, <1>15, <2>1
    <2> QED
      BY <1>7, <1>9, <1>11, <1>13, <2>2
  <1> QED
    BY <1>9, <1>11, <1>13, <1>14, <1>15

\* pstree.c:140-225: all that is read of /proc has its type, and no process is read
\* that was read before or lies behind the one that is read now.
THEOREM PstreeTypeCorrect == PstreeSpec => []PstreeTypeOK
  <1>1. PsInv => PstreeTypeOK
    <2> SUFFICES ASSUME PsInv PROVE PstreeTypeOK
      OBVIOUS
    <2>1. PsTypes /\ Progress
      BY DEF PsInv
    <2>2. \A i \in Ids : tree[i].ppid \in Ids \cup {-1, 0}
      BY <2>1 DEF PsTypes, Entry
    <2>3. phase \in {"readdir", "scan", "threads", "cmdline", "link", "sort", "print", "done", "overrun"}
      BY <2>1 DEF PsTypes, Reading, Linking
    <2> QED
      BY <2>1, <2>2, <2>3 DEF PsTypes, Progress, PstreeTypeOK
  <1> QED
    BY <1>1, PstreeInvariant, PTL

-----------------------------------------------------------------------------
(* What the loop prints.                                                   *)

\* After sort_children the children of a node are in a sequence, each once.
LEMMA OrderFacts ==
  ASSUME PsTypes, NEW i \in Ids, IsFiniteSet(tree[i].children), IsOrder(i),
         NEW cs, cs = order[i]
  PROVE  /\ cs \in Seq(Nodes) /\ Len(cs) \in Nat
         /\ \A k \in 1..Len(cs) : cs[k] \in tree[i].children /\ cs[k] \in Nodes
         /\ \A j, k \in 1..Len(cs) : cs[j] = cs[k] => j = k
         /\ \A c \in tree[i].children : \E k \in 1..Len(cs) : cs[k] = c
  <1> DEFINE K == tree[i].children
  <1>1. cs \in Seq(Nodes) /\ Len(cs) \in Nat /\ DOMAIN cs = 1..Len(cs)
    BY DEF PsTypes
  <1>2. cs \in SetToSeqs(K)
    BY DEF IsOrder
  <1> HIDE DEF K
  <1>3. /\ cs \in [1..Cardinality(K) -> K]
        /\ \A j, k \in 1..Cardinality(K) : j # k => cs[j] # cs[k]
    BY <1>2 DEF SetToSeqs
  <1>4. DOMAIN cs = 1..Cardinality(K)
    BY <1>3
  <1>5. IsFiniteSet(K) /\ Cardinality(K) \in Nat
    BY FS_CardinalityType DEF K
  <1>6. cs \in Injection(1..Cardinality(K), K)
    BY <1>3, Fun_IsInj
  <1>7. Cardinality(1..Cardinality(K)) = Cardinality(K)
    BY <1>5, FS_Interval
  <1>8. cs \in Surjection(1..Cardinality(K), K)
    BY <1>5, <1>6, <1>7, FS_Injection
  <1>9. \A c \in K : \E k \in 1..Cardinality(K) : cs[k] = c
    BY <1>8 DEF Surjection
  <1>10. \A k \in 1..Len(cs) : cs[k] \in Nodes
    BY <1>1
  <1> QED
    BY <1>1, <1>3, <1>4, <1>9, <1>10 DEF K

\* The fields of a child.
LEMMA NodeParts == \A c \in Nodes : c.id \in Ids /\ c.name \in Nat /\ c.thread \in BOOLEAN
  <1>1. SUFFICES ASSUME NEW c \in Nodes PROVE c.id \in Ids /\ c.name \in Nat /\ c.thread \in BOOLEAN
    OBVIOUS
  <1>2. c.name \in Names \cup {0} /\ c.id \in Ids /\ c.thread \in BOOLEAN
    BY DEF Nodes
  <1>3. Names \cup {0} \subseteq Nat
    BY PstreeAssumption
  <1>4. c.name \in Nat
    BY <1>2, <1>3, Zenon
  <1> QED
    BY <1>2, <1>4, Zenon

\* compare_by_name is an order in which equals have one name.
LEMMA NotAfterOrder ==
  ASSUME NEW a \in Nodes, NEW b \in Nodes, NEW c \in Nodes, ~SortByPid
  PROVE  /\ NotAfter(a, a)
         /\ NotAfter(a, b) /\ NotAfter(b, c) => NotAfter(a, c)
         /\ NotAfter(a, b) /\ NotAfter(b, c) /\ SameName(c, a) => SameName(b, a)
  <1>1. a.name \in Nat /\ b.name \in Nat /\ c.name \in Nat
    BY NodeParts
  <1>2. a.thread \in BOOLEAN /\ b.thread \in BOOLEAN /\ c.thread \in BOOLEAN
    BY NodeParts
  <1>3. \A x \in {a, b, c}, y \in {a, b, c} :
           NotAfter(x, y) <=> (~x.thread /\ y.thread) \/ (x.thread = y.thread /\ x.name <= y.name)
    BY DEF NotAfter
  <1>4. a.name <= a.name /\ (a.name <= b.name /\ b.name <= c.name => a.name <= c.name)
    BY <1>1
  <1>5. a.name <= b.name /\ b.name <= c.name /\ c.name = a.name => b.name = a.name
    BY <1>1
  <1>6. NotAfter(a, a)
    BY <1>3, <1>4
  <1>7. NotAfter(a, b) /\ NotAfter(b, c) => NotAfter(a, c)
    BY <1>2, <1>3, <1>4, Zenon
  <1>8. NotAfter(a, b) /\ NotAfter(b, c) /\ SameName(c, a) => SameName(b, a)
    BY <1>2, <1>3, <1>5, Zenon DEF SameName
  <1> QED
    BY <1>6, <1>7, <1>8

\* Children that are sorted by name are in this order also when they are not
\* next to each other.
LEMMA SortedApart ==
  ASSUME NEW cs \in Seq(Nodes), ~SortByPid,
         \A k \in 1..(Len(cs) - 1) : NotAfter(cs[k], cs[k + 1]),
         NEW i \in 1..Len(cs), NEW j \in i..Len(cs)
  PROVE  NotAfter(cs[i], cs[j])
  <1> DEFINE N == Len(cs) - i
             S == {n \in 0..N : NotAfter(cs[i], cs[i + n])}
  <1>1. N \in Nat /\ i \in Nat /\ Len(cs) \in Nat
    OBVIOUS
  <1>2. \A k \in 1..Len(cs) : cs[k] \in Nodes
    OBVIOUS
  <1>3. 0 \in S
    BY <1>1, <1>2, NotAfterOrder
  <1>4. ASSUME NEW n \in 0..(N - 1), n \in S PROVE n + 1 \in S
    <2>1. i + n \in 1..Len(cs) /\ (i + n) + 1 \in 1..Len(cs) /\ i + n \in 1..(Len(cs) - 1) /\ n + 1 \in 0..N
      BY <1>1
    <2>2. NotAfter(cs[i], cs[i + n]) /\ NotAfter(cs[i + n], cs[(i + n) + 1])
      BY <1>4, <2>1
    <2>3. cs[i] \in Nodes /\ cs[i + n] \in Nodes /\ cs[(i + n) + 1] \in Nodes
      BY <1>2, <2>1
    <2>4. NotAfter(cs[i], cs[(i + n) + 1])
      BY <2>2, <2>3, NotAfterOrder
    <2>5. (i + n) + 1 = i + (n + 1)
      BY <1>1
    <2> QED
      BY <2>1, <2>4, <2>5
  <1> HIDE DEF S
  <1>5. 0..N \subseteq S
    BY <1>1, <1>3, <1>4, LoopInduction
  <1>6. j - i \in 0..N /\ i + (j - i) = j
    BY <1>1
  <1> QED
    BY <1>5, <1>6 DEF S

\* The children that a turn skips have the name of the one it prints.
LEMMA TurnSameName ==
  ASSUME NEW cs \in Seq(Nodes), NEW i \in 1..Len(cs), NEW k \in i..TurnEnd(cs, i),
         ShowCompact => ~SortByPid /\ \A n \in 1..(Len(cs) - 1) : NotAfter(cs[n], cs[n + 1])
  PROVE  SameName(cs[k], cs[i])
  <1> DEFINE A == {j \in i..Len(cs) : SameName(cs[j], cs[i]) /\ IsLeaf(cs[j])}
             count == count_same_name_children(cs, i)
  <1>1. /\ TurnEnd(cs, i) \in i..Len(cs) /\ count \in Nat
        /\ TurnEnd(cs, i) # i => ShowCompact /\ count > 1 /\ TurnEnd(cs, i) = i + count - 1
    BY TurnEnds
  <1>2. count = Cardinality(A)
    BY DEF count_same_name_children
  <1>3. Len(cs) \in Nat /\ i \in Nat /\ k \in Int /\ i <= k /\ k \in 1..Len(cs)
    BY <1>1
  <1>4. CASE k = i
    BY <1>4 DEF SameName
  <1>5. CASE k # i
    <2>1. ShowCompact /\ TurnEnd(cs, i) = i + count - 1 /\ k <= i + count - 1
      BY <1>1, <1>3, <1>5
    <2>2. ~SortByPid /\ \A a \in 1..Len(cs), b \in 1..Len(cs) : a <= b => NotAfter(cs[a], cs[b])
      <3>1. SUFFICES ASSUME NEW a \in 1..Len(cs), NEW b \in 1..Len(cs), a <= b PROVE NotAfter(cs[a], cs[b])
        BY <2>1
      <3>2. b \in a..Len(cs)
        BY <3>1
      <3> QED
        BY <2>1, <3>2, SortedApart
    <2>3. SUFFICES ASSUME ~SameName(cs[k], cs[i]) PROVE FALSE
      OBVIOUS
    <2>4. \A n \in 1..Len(cs) : cs[n] \in Nodes
      OBVIOUS
    <2>5. ASSUME NEW j \in A PROVE j \in i..(k - 1)
      <3>1. j \in 1..Len(cs) /\ j \in Int /\ j >= i /\ SameName(cs[j], cs[i])
        BY <1>3
      <3>2. SUFFICES ASSUME k <= j PROVE FALSE
        BY <1>3, <3>1
      <3>3. NotAfter(cs[i], cs[k]) /\ NotAfter(cs[k], cs[j])
        BY <1>3, <2>2, <3>1, <3>2
      <3>4. cs[i] \in Nodes /\ cs[j] \in Nodes /\ cs[k] \in Nodes
        BY <1>3, <2>4, <3>1
      <3> QED
        BY <2>2, <2>3, <3>1, <3>3, <3>4, NotAfterOrder
    <2> HIDE DEF A
    <2>6. IsFiniteSet(i..(k - 1)) /\ Cardinality(i..(k - 1)) = k - i
      <3> DEFINE b == k - 1
      <3>1. b \in Int /\ i \in Int /\ ~(i > b) /\ b - i + 1 = k - i
        BY <1>3, <1>5
      <3> HIDE DEF b
      <3>2. IsFiniteSet(i..b) /\ Cardinality(i..b) = b - i + 1
        BY <3>1, FS_Interval
      <3> QED
        BY <3>1, <3>2 DEF b
    <2>7. A \in SUBSET (i..(k - 1))
      BY <2>5
    <2>8. Cardinality(A) <= k - i
      BY <2>6, <2>7, FS_Subset
    <2> QED
      BY <1>1, <1>2, <1>3, <2>1, <2>8
  <1> QED
    BY <1>4, <1>5

\* What CompactionCounts asks for the children of p.
Plain(p) == ShowCompact => ~SortByPid /\ ~ShowCmdline /\ ~Mixed(p)

\* What is known of a node when all is sorted and printed.
LEMMA DoneFacts ==
  ASSUME PsInv, phase = "done", NEW p \in Ids
  PROVE  /\ PsTypes /\ tree[p].children \subseteq Nodes /\ IsFiniteSet(tree[p].children)
         /\ IsOrder(p)
         /\ Kids(p) = IF tree[p] = NULL THEN {} ELSE Linked(p)
         /\ ~ShowCmdline => tree[p].cmdline = "empty"
  <1>1. PsTypes /\ Nested /\ Ordered
    BY DEF PsInv
  <1>2. tree[p].children \subseteq Nodes
    <2>1. tree[p] \in Entry
      BY <1>1 DEF PsTypes
    <2>2. \A e \in Entry : e.children \in SUBSET Nodes
      BY DEF Entry
    <2> QED
      BY <2>1, <2>2
  <1>3. IsOrder(p)
    BY <1>1 DEF Ordered, Linking
  <1> QED
    BY <1>1, <1>2, <1>3 DEF Nested, Linking

\* The line that the turn that begins at i prints.
TurnLine(cs, i, junk) == Line(cs[TurnEnd(cs, i)], TurnEnd(cs, i) + 1 - i, junk)

\* In one turn of the loop all children have the name of the first, and only the
\* last can have children.
LEMMA TurnGroup ==
  ASSUME PsInv, phase = "done", NEW p \in Ids, Plain(p), NEW cs, cs = order[p],
         NEW i \in 1..Len(cs), NEW k \in i..TurnEnd(cs, i)
  PROVE  /\ TurnEnd(cs, i) \in i..Len(cs) /\ k \in 1..Len(cs)
         /\ SameName(cs[k], cs[i])
         /\ ~IsLeaf(cs[k]) => k = TurnEnd(cs, i)
  <1> DEFINE e == TurnEnd(cs, i)
             K == tree[p].children
  <1>1. /\ PsTypes /\ IsFiniteSet(K) /\ IsOrder(p)
        /\ ~ShowCmdline => \A q \in Ids : tree[q].cmdline = "empty"
    BY DoneFacts
  <1>2. /\ cs \in Seq(Nodes) /\ Len(cs) \in Nat
        /\ \A n \in 1..Len(cs) : cs[n] \in K /\ cs[n] \in Nodes
    BY <1>1, OrderFacts
  <1>3. /\ e \in i..Len(cs) /\ count_same_name_children(cs, i) \in Nat
        /\ e # i => ShowCompact /\ count_same_name_children(cs, i) > 1
        /\ ~ShowCompact => e = i
    BY <1>2, TurnEnds
  <1>4. e \in 1..Len(cs) /\ k \in 1..Len(cs) /\ e \in i..e
    BY <1>2, <1>3
  <1>5. ShowCompact => ~SortByPid /\ \A n \in 1..(Len(cs) - 1) : NotAfter(cs[n], cs[n + 1])
    BY <1>1 DEF Plain, IsOrder
  <1>6. SameName(cs[k], cs[i])
    BY <1>2, <1>5, TurnSameName
  <1>7. SameName(cs[e], cs[i])
    BY <1>2, <1>4, <1>5, TurnSameName
  <1>8. ~IsLeaf(cs[k]) => k = e
    <2>1. SUFFICES ASSUME ~IsLeaf(cs[k]), k # e PROVE FALSE
      OBVIOUS
    <2>2. e # i
      BY <1>2, <1>3, <2>1
    <2> DEFINE A == {j \in i..Len(cs) : SameName(cs[j], cs[i]) /\ IsLeaf(cs[j])}
    <2>3. A # {}
      <3>1. count_same_name_children(cs, i) = Cardinality(A)
        BY DEF count_same_name_children
      <3>2. count_same_name_children(cs, i) # 0
        BY <1>3, <2>2
      <3> HIDE DEF A
      <3> QED
        BY <3>1, <3>2, FS_EmptySet
    <2>4. PICK j \in A : TRUE
      BY <2>3
    <2>5. j \in 1..Len(cs) /\ SameName(cs[j], cs[i]) /\ IsLeaf(cs[j])
      BY <1>2
    <2>6. SameName(cs[j], cs[k])
      BY <1>6, <2>5 DEF SameName
    <2>7. Mixed(p)
      BY <1>2, <1>4, <2>1, <2>5, <2>6 DEF Mixed
    <2> QED
      BY <1>3, <2>2, <2>7 DEF Plain
  <1> HIDE DEF e
  <1>9. e = TurnEnd(cs, i) /\ e \in i..Len(cs)
    BY <1>3 DEF e
  <1> QED
    BY <1>4, <1>6, <1>8, <1>9

\* If they are processes the line that is printed counts them.
LEMMA TurnFacts ==
  ASSUME PsInv, phase = "done", NEW p \in Ids, Plain(p), NEW cs, cs = order[p],
         NEW i \in 1..Len(cs), NEW k \in i..TurnEnd(cs, i), NEW junk
  PROVE  /\ TurnLine(cs, i, junk).id = cs[TurnEnd(cs, i)].id
         /\ TurnLine(cs, i, junk).thread = cs[k].thread
         /\ ~cs[k].thread => TurnLine(cs, i, junk).count = TurnEnd(cs, i) + 1 - i
  <1> DEFINE l == TurnLine(cs, i, junk)
             e == TurnEnd(cs, i)
  <1>1. PsTypes /\ IsFiniteSet(tree[p].children) /\ IsOrder(p) /\ (~ShowCmdline => \A q \in Ids : tree[q].cmdline = "empty")
    BY DoneFacts
  <1>2. cs \in Seq(Nodes) /\ Len(cs) \in Nat /\ \A n \in 1..Len(cs) : cs[n] \in Nodes
    BY <1>1, OrderFacts
  <1>3. e \in i..Len(cs) /\ (~ShowCompact => e = i)
    BY <1>2, TurnEnds
  <1>4. e \in 1..Len(cs) /\ e \in i..e /\ e \in Int /\ i \in Int
    BY <1>2, <1>3
  <1>5. SameName(cs[k], cs[i]) /\ SameName(cs[e], cs[i])
    BY <1>4, TurnGroup
  <1>6. l.id = cs[e].id /\ l.thread = cs[e].thread
    BY DEF TurnLine, Line
  <1>7. cs[e].thread = cs[k].thread
    BY <1>5 DEF SameName
  <1>8. ~cs[k].thread => l.count = e + 1 - i
    <2>1. SUFFICES ASSUME ~cs[k].thread PROVE l.count = e + 1 - i
      OBVIOUS
    <2>2. ~cs[e].thread
      BY <1>7, <2>1
    <2>3. cs[e].id \in Ids
      BY <1>2, <1>4, NodeParts
    <2>4. l.count = IF tree[cs[e].id].cmdline # "empty" THEN 1 ELSE e + 1 - i
      BY <2>2 DEF TurnLine, Line
    <2>5. CASE ShowCompact
      BY <1>1, <2>3, <2>4, <2>5 DEF Plain
    <2>6. CASE ~ShowCompact
      <3>1. e = i /\ e + 1 - i = 1
        BY <1>3, <2>6
      <3> QED
        BY <2>4, <3>1
    <2> QED
      BY <2>5, <2>6
  <1> HIDE DEF e, l
  <1>9. e = TurnEnd(cs, i) /\ l = TurnLine(cs, i, junk)
    BY DEF e, l
  <1> QED
    BY <1>6, <1>7, <1>8, <1>9

\* The count of a line for processes.
LEMMA TurnCounts ==
  ASSUME PsInv, phase = "done", NEW p \in Ids, Plain(p),
         NEW i \in 1..Len(order[p]), NEW k \in i..TurnEnd(order[p], i), ~order[p][k].thread, NEW junk
  PROVE  TurnLine(order[p], i, junk).count = TurnEnd(order[p], i) + 1 - i
  BY TurnFacts

\* For whom a call of print_process_tree calls it, and the child processes.
CallStep == [p \in Ids |-> {l.id : l \in {m \in ChildLines(p, FALSE) : ~m.thread}}]
ChildStep == [p \in Ids |-> {c.id : c \in {d \in tree[p].children : ~d.thread}}]

\* Below(1) and Called are closures of these.
LEMMA StepTypes ==
  ASSUME PsInv, phase = "done"
  PROVE  /\ ChildStep \in [Ids -> SUBSET Ids] /\ Below(1) = Closure(ChildStep, 1)
         /\ CallStep \in [Ids -> SUBSET Ids] /\ Called = Closure(CallStep, 1)
         /\ 1 \in Ids
  <1>1. \A p \in Ids : ChildStep[p] \in SUBSET Ids
    <2>1. ASSUME NEW p \in Ids, NEW c \in tree[p].children PROVE c.id \in Ids
      BY DoneFacts, NodeParts
    <2> QED
      BY <2>1 DEF ChildStep
  <1>2. \A p \in Ids : CallStep[p] \in SUBSET Ids
    <2>1. ASSUME NEW p \in Ids, NEW l \in ChildLines(p, FALSE) PROVE l.id \in Ids
      <3> DEFINE cs == order[p]
      <3>1. cs \in Seq(Nodes) /\ \A n \in 1..Len(cs) : cs[n] \in Nodes
        BY DoneFacts, OrderFacts
      <3>2. PICK i \in Turns(cs) : l = Line(cs[TurnEnd(cs, i)], TurnEnd(cs, i) + 1 - i, FALSE)
        BY DEF ChildLines
      <3>3. i \in 1..Len(cs)
        BY <3>1, LoopSteps
      <3>4. TurnEnd(cs, i) \in i..Len(cs)
        BY <3>1, <3>3, TurnEnds
      <3>5. TurnEnd(cs, i) \in 1..Len(cs)
        BY <3>1, <3>3, <3>4
      <3>6. cs[TurnEnd(cs, i)].id \in Ids
        BY <3>1, <3>5, NodeParts
      <3> QED
        BY <3>2, <3>6 DEF Line
    <2> QED
      BY <2>1 DEF CallStep
  <1>3. Below(1) = Closure(ChildStep, 1) /\ Called = Closure(CallStep, 1)
    BY DEF Below, Called, ChildStep, CallStep
  <1> QED
    BY <1>1, <1>2, <1>3, IdsType DEF ChildStep, CallStep

\* print_process_tree is called for each process below process 1 that has
\* children.
LEMMA CalledForParents ==
  ASSUME PsInv, phase = "done", \A p \in Below(1) : Plain(p)
  PROVE  \A p \in Below(1) : p \in Ids /\ (p \in Called \/ tree[p].children = {})
  <1> DEFINE B == Below(1)
             S == {z \in B : z \in Called \/ tree[z].children = {}}
  <1>1. /\ B \subseteq Ids /\ 1 \in B /\ \A z \in B : ChildStep[z] \subseteq B
        /\ 1 \in Called /\ \A z \in Called : CallStep[z] \subseteq Called
    BY StepTypes, ClosureGrows
  <1>2. ASSUME NEW z \in S, NEW y \in ChildStep[z] PROVE y \in S
    <2> DEFINE cs == order[z]
    <2>1. z \in B /\ z \in Ids /\ y \in B /\ Plain(z)
      BY <1>1
    <2>2. PICK c \in tree[z].children : ~c.thread /\ y = c.id
      BY <2>1 DEF ChildStep
    <2>3. z \in Called
      BY <2>2
    <2>4. IsOrder(z) /\ PsTypes /\ IsFiniteSet(tree[z].children)
      BY <2>1, DoneFacts
    <2>5. cs \in Seq(Nodes) /\ Len(cs) \in Nat /\ \E k \in 1..Len(cs) : cs[k] = c
      BY <2>1, <2>4, OrderFacts
    <2>6. PICK k \in 1..Len(cs) : cs[k] = c
      BY <2>5
    <2>7. PICK i \in Turns(cs) : i \in 1..Len(cs) /\ i <= k /\ k <= TurnEnd(cs, i)
      BY <2>5, TurnsCover
    <2>8. TurnEnd(cs, i) \in i..Len(cs)
      BY <2>5, <2>7, TurnEnds
    <2>9. k \in i..TurnEnd(cs, i)
      BY <2>5, <2>7, <2>8
    <2> DEFINE l == TurnLine(cs, i, FALSE)
    <2>10. CASE IsLeaf(c)
      BY <2>1, <2>2, <2>10 DEF IsLeaf
    <2>11. CASE ~IsLeaf(c)
      <3>1. k = TurnEnd(cs, i)
        <4>1. ~IsLeaf(cs[k])
          BY <2>6, <2>11
        <4> QED
          BY <2>1, <2>7, <2>9, <4>1, TurnGroup
      <3>2. l.id = c.id /\ l.thread = c.thread
        BY <2>6, <3>1 DEF TurnLine, Line
      <3>3. l \in ChildLines(z, FALSE)
        BY <2>7 DEF ChildLines, TurnLine
      <3> HIDE DEF l
      <3>4. y \in CallStep[z]
        BY <2>1, <2>2, <3>2, <3>3 DEF CallStep
      <3> QED
        BY <1>1, <2>1, <2>3, <3>4
    <2> QED
      BY <2>10, <2>11
  <1>3. 1 \in S /\ S \in SUBSET Ids
    BY <1>1
  <1>4. S \subseteq B /\ \A z \in S : z \in Called \/ tree[z].children = {}
    OBVIOUS
  <1> HIDE DEF S
  <1>5. Closure(ChildStep, 1) \subseteq S
    BY <1>2, <1>3, StepTypes, ClosureLeast
  <1> QED
    BY <1>1, <1>4, <1>5, StepTypes

\* A line for process 1 or a child of a process: which it is, when it is that of
\* a child of p.
LEMMA LineOfChild ==
  ASSUME PsInv, phase = "done", NEW junk \in BOOLEAN, printed = Output(junk), NEW p \in Ids,
         NEW c \in Kids(p), NEW l \in printed, ~l.thread, l.id = c.id
  PROVE  \E i \in Turns(order[p]) : /\ l = TurnLine(order[p], i, junk)
                                  /\ order[p][TurnEnd(order[p], i)] = c
  <1>1. c \in Linked(p) /\ tree[p] # NULL
    BY DoneFacts
  <1>2. PICK j \in Ids : c = ChildNode(j, tree[j].name, FALSE) /\ tree[j].ppid = p
    BY <1>1 DEF Linked
  <1>3. l.id = j
    BY <1>2 DEF ChildNode
  <1>4. tree[1].ppid # p
    <2>1. tree[1].ppid \in {-1, 0} /\ p \in Nat \ {0}
      BY IdsType DEF PsInv, InitProcess
    <2> QED
      BY <2>1
  <1>5. l # Line(ChildNode(1, tree[1].name, FALSE), 1, junk)
    <2>1. Line(ChildNode(1, tree[1].name, FALSE), 1, junk).id = 1
      BY DEF Line, ChildNode
    <2> QED
      BY <1>2, <1>3, <1>4, <2>1
  <1>6. PICK q \in Called : l \in ChildLines(q, junk)
    BY <1>5 DEF Output
  <1>7. q \in Ids
    BY StepTypes, ClosureGrows
  <1> DEFINE cs == order[q]
  <1>8. PICK i \in Turns(cs) : l = TurnLine(cs, i, junk)
    BY <1>6 DEF ChildLines, TurnLine
  <1>9. cs \in Seq(Nodes) /\ \A n \in 1..Len(cs) : cs[n] \in tree[q].children
    BY <1>7, DoneFacts, OrderFacts
  <1>10. i \in 1..Len(cs)
    BY <1>9, LoopSteps
  <1>11. TurnEnd(cs, i) \in 1..Len(cs)
    <2>1. TurnEnd(cs, i) \in i..Len(cs)
      BY <1>9, <1>10, TurnEnds
    <2> QED
      BY <1>9, <1>10, <2>1
  <1> DEFINE d == cs[TurnEnd(cs, i)]
  <1>12. d \in tree[q].children /\ l.id = d.id /\ l.thread = d.thread
    BY <1>8, <1>9, <1>11 DEF TurnLine, Line
  <1>13. d \in Kids(q)
    BY <1>12 DEF Kids
  <1>14. d \in Linked(q)
    BY <1>7, <1>13, DoneFacts
  <1>15. PICK k \in Ids : d = ChildNode(k, tree[k].name, FALSE) /\ tree[k].ppid = q
    BY <1>14 DEF Linked
  <1>16. k = j
    BY <1>3, <1>12, <1>15 DEF ChildNode
  <1>17. q = p /\ d = c
    BY <1>2, <1>15, <1>16
  <1> QED
    BY <1>8, <1>17

\* The lines below p count its children of a name.
LEMMA ShownBelow ==
  ASSUME PsInv, phase = "done", NEW p \in Ids, Plain(p), p \in Called, tree[1] # NULL, NEW nm \in Names
  PROVE  Shown(p, nm)
  <1> DEFINE K == {c \in tree[p].children : c.name = nm /\ ~c.thread}
             L == {l \in printed : ~l.thread /\ l.id \in {c.id : c \in K}}
             U == UNION {{l} \X (1..l.count) : l \in L}
             cs == order[p]
  <1>1. PICK junk \in BOOLEAN : printed = Output(junk)
    BY DEF PsInv, Written
  <1>2. /\ cs \in Seq(Nodes) /\ Len(cs) \in Nat
        /\ \A n \in 1..Len(cs) : cs[n] \in tree[p].children /\ cs[n] \in Nodes
        /\ \A m, n \in 1..Len(cs) : cs[m] = cs[n] => m = n
        /\ \A c \in tree[p].children : \E n \in 1..Len(cs) : cs[n] = c
    BY DoneFacts, OrderFacts
  <1>3. \A i \in Turns(cs) : i \in 1..Len(cs)
    BY <1>2, LoopSteps
  <1>4. K \subseteq Kids(p) /\ IsFiniteSet(K)
    <2>1. K \subseteq tree[p].children
      OBVIOUS
    <2>2. IsFiniteSet(tree[p].children)
      BY DoneFacts
    <2> QED
      BY <2>1, <2>2, FS_Subset DEF Kids
  <1> DEFINE In(k, i) == i \in 1..Len(cs) /\ i <= k /\ k <= TurnEnd(cs, i)
             idx == [c \in K |-> CHOOSE k \in 1..Len(cs) : cs[k] = c]
             turn == [c \in K |-> CHOOSE i \in Turns(cs) : In(idx[c], i)]
             g == [c \in K |-> <<TurnLine(cs, turn[c], junk), idx[c] - turn[c] + 1>>]
  <1>5. \A c \in K : idx[c] \in 1..Len(cs) /\ cs[idx[c]] = c
    BY <1>2
  <1>6. \A c \in K : turn[c] \in Turns(cs) /\ In(idx[c], turn[c])
    <2>1. ASSUME NEW c \in K PROVE \E i \in Turns(cs) : In(idx[c], i)
      BY <1>2, <1>5, TurnsCover
    <2>2. \A c \in K : turn[c] = CHOOSE i \in Turns(cs) : In(idx[c], i)
      OBVIOUS
    <2> HIDE DEF In, turn, idx
    <2> QED
      BY <2>1, <2>2
  \* What one turn prints of the children of the name.
  <1>7. ASSUME NEW i \in Turns(cs), NEW k \in 1..Len(cs), In(k, i), cs[k] \in K
        PROVE  /\ TurnEnd(cs, i) \in i..Len(cs) /\ TurnEnd(cs, i) \in 1..Len(cs)
               /\ cs[TurnEnd(cs, i)] \in K
               /\ TurnLine(cs, i, junk) \in L
               /\ TurnLine(cs, i, junk).id = cs[TurnEnd(cs, i)].id
               /\ TurnLine(cs, i, junk).count = TurnEnd(cs, i) + 1 - i
               /\ \A n \in i..TurnEnd(cs, i) : n \in 1..Len(cs) /\ cs[n] \in K
    <2> DEFINE e == TurnEnd(cs, i)
               l == TurnLine(cs, i, junk)
    <2>1. e \in i..Len(cs)
      BY <1>2, <1>3, TurnEnds
    <2>2. e \in 1..Len(cs) /\ e \in i..e /\ k \in i..e /\ i \in i..e
      BY <1>2, <1>3, <1>7, <2>1
    <2>3. /\ SameName(cs[k], cs[i]) /\ l.id = cs[e].id /\ l.thread = cs[k].thread
          /\ ~cs[k].thread => l.count = e + 1 - i
      <3>1. i \in 1..Len(cs) /\ k \in i..TurnEnd(cs, i)
        BY <1>3, <2>2
      <3>2. SameName(cs[k], cs[i])
        BY <3>1, TurnGroup
      <3>3. TurnLine(cs, i, junk).id = cs[TurnEnd(cs, i)].id
        BY <3>1, TurnFacts
      <3>4. TurnLine(cs, i, junk).thread = cs[k].thread
        BY <3>1, TurnFacts
      <3>5. ~cs[k].thread => TurnLine(cs, i, junk).count = TurnEnd(cs, i) + 1 - i
        BY <3>1, TurnCounts
      <3> QED
        BY <3>2, <3>3, <3>4, <3>5
    <2>4. ~cs[k].thread /\ cs[k].name = nm
      BY <1>7
    <2>5. ASSUME NEW n \in i..e PROVE n \in 1..Len(cs) /\ cs[n] \in K
      <3>1. SameName(cs[n], cs[i]) /\ n \in 1..Len(cs)
        BY <1>3, TurnGroup
      <3> QED
        BY <1>2, <2>3, <2>4, <3>1 DEF SameName
    <2>6. cs[e] \in K
      BY <2>2, <2>5
    <2>7. l \in ChildLines(p, junk)
      BY DEF ChildLines, TurnLine
    <2>8. l \in printed
      BY <1>1, <2>7 DEF Output
    <2>9. l \in L
      <3> HIDE DEF l, e, K
      <3> QED
        BY <2>3, <2>4, <2>6, <2>8
    <2> HIDE DEF l, e, K, L
    <2>10. e = TurnEnd(cs, i) /\ l = TurnLine(cs, i, junk)
      BY DEF e, l
    <2> QED
      BY <2>1, <2>2, <2>3, <2>4, <2>5, <2>6, <2>9, <2>10
  \* Two turns that print the same line are one.
  <1>8. ASSUME NEW a \in Turns(cs), NEW b \in Turns(cs), TurnEnd(cs, a) = TurnEnd(cs, b)
        PROVE  a = b
    <2>1. /\ a \in 1..Len(cs) /\ b \in 1..Len(cs)
          /\ TurnEnd(cs, a) \in a..Len(cs) /\ TurnEnd(cs, b) \in b..Len(cs)
      BY <1>2, <1>3, TurnEnds
    <2>2. ~(a < b) /\ ~(b < a)
      <3>1. a < b => TurnEnd(cs, a) < b
        BY <1>2, TurnsApart
      <3>2. b < a => TurnEnd(cs, b) < a
        BY <1>2, TurnsApart
      <3> QED
        BY <1>8, <2>1, <3>1, <3>2
    <2> QED
      BY <2>1, <2>2
  <1>9. ASSUME NEW a \in Turns(cs), NEW b \in Turns(cs), NEW k \in 1..Len(cs), In(k, a), In(k, b)
        PROVE  a = b
    <2>1. /\ a \in 1..Len(cs) /\ b \in 1..Len(cs)
          /\ TurnEnd(cs, a) \in a..Len(cs) /\ TurnEnd(cs, b) \in b..Len(cs)
      BY <1>2, <1>3, TurnEnds
    <2>2. ~(a < b) /\ ~(b < a)
      <3>1. a < b => TurnEnd(cs, a) < b
        BY <1>2, TurnsApart
      <3>2. b < a => TurnEnd(cs, b) < a
        BY <1>2, TurnsApart
      <3> QED
        BY <1>9, <2>1, <3>1, <3>2
    <2> QED
      BY <2>1, <2>2
  <1>10. \A c, d \in K : c.id = d.id => c = d
    <2>1. ASSUME NEW c \in K PROVE c = ChildNode(c.id, tree[c.id].name, FALSE)
      <3>1. c \in Linked(p)
        BY <1>4, DoneFacts
      <3> QED
        BY <3>1 DEF Linked, ChildNode
    <2> HIDE DEF K
    <2> QED
      BY <2>1
  <1>11. ASSUME NEW c \in K
         PROVE  /\ turn[c] \in Turns(cs) /\ turn[c] \in 1..Len(cs)
                /\ idx[c] \in 1..Len(cs) /\ cs[idx[c]] = c /\ In(idx[c], turn[c])
                /\ TurnLine(cs, turn[c], junk) \in L
                /\ TurnEnd(cs, turn[c]) \in 1..Len(cs)
                /\ cs[TurnEnd(cs, turn[c])] \in K
                /\ TurnLine(cs, turn[c], junk).id = cs[TurnEnd(cs, turn[c])].id
                /\ idx[c] - turn[c] + 1 \in 1..TurnLine(cs, turn[c], junk).count
                /\ g[c] = <<TurnLine(cs, turn[c], junk), idx[c] - turn[c] + 1>>
    <2>1. turn[c] \in Turns(cs) /\ In(idx[c], turn[c]) /\ idx[c] \in 1..Len(cs) /\ cs[idx[c]] = c
      BY <1>5, <1>6
    <2>2. g[c] = <<TurnLine(cs, turn[c], junk), idx[c] - turn[c] + 1>>
      OBVIOUS
    <2>3. turn[c] \in 1..Len(cs) /\ turn[c] <= idx[c] /\ idx[c] <= TurnEnd(cs, turn[c])
      BY <2>1
    <2> HIDE DEF turn, idx, g, K, L, In
    <2>4. cs[idx[c]] \in K
      BY <2>1
    <2>5. /\ TurnEnd(cs, turn[c]) \in 1..Len(cs)
          /\ cs[TurnEnd(cs, turn[c])] \in K
          /\ TurnLine(cs, turn[c], junk) \in L
          /\ TurnLine(cs, turn[c], junk).id = cs[TurnEnd(cs, turn[c])].id
          /\ TurnLine(cs, turn[c], junk).count = TurnEnd(cs, turn[c]) + 1 - turn[c]
      BY <1>7, <2>1, <2>4
    <2>6. idx[c] - turn[c] + 1 \in 1..(TurnEnd(cs, turn[c]) + 1 - turn[c])
      BY <1>2, <2>1, <2>3, <2>5
    <2> QED
      BY <2>1, <2>2, <2>3, <2>5, <2>6
  <1>12. g \in [K -> U]
    <2>1. ASSUME NEW c \in K PROVE g[c] \in U
      <3> HIDE DEF turn, idx, g, K, L, In
      <3>1. \A x, n, S : n \in S => <<x, n>> \in {x} \X S
        OBVIOUS
      <3>2. g[c] \in {TurnLine(cs, turn[c], junk)} \X (1..TurnLine(cs, turn[c], junk).count)
        <4> DEFINE R == 1..TurnLine(cs, turn[c], junk).count
                   n == idx[c] - turn[c] + 1
        <4>1. n \in R /\ g[c] = <<TurnLine(cs, turn[c], junk), n>>
          BY <1>11
        <4> HIDE DEF R, n
        <4>2. g[c] \in {TurnLine(cs, turn[c], junk)} \X R
          BY <3>1, <4>1
        <4> QED
          BY <4>2 DEF R
      <3> QED
        BY <1>11, <3>2
    <2>2. \A c \in K : <<TurnLine(cs, turn[c], junk), idx[c] - turn[c] + 1>> \in U
      <3> HIDE DEF turn, idx, g, U, K, L, In
      <3> QED
        BY <1>11, <2>1
    <2> HIDE DEF turn, idx, U, K
    <2> QED
      BY <2>2
  <1>13. ASSUME NEW c \in K, NEW d \in K, g[c] = g[d] PROVE c = d
    <2> HIDE DEF turn, idx, g, K, L, In, U
    <2>1. TurnLine(cs, turn[c], junk) = TurnLine(cs, turn[d], junk) /\ idx[c] - turn[c] + 1 = idx[d] - turn[d] + 1
      BY <1>11, <1>13
    <2>2. cs[TurnEnd(cs, turn[c])] = cs[TurnEnd(cs, turn[d])]
      <3>1. cs[TurnEnd(cs, turn[c])] \in K /\ TurnLine(cs, turn[c], junk).id = cs[TurnEnd(cs, turn[c])].id
        BY <1>11
      <3>2. cs[TurnEnd(cs, turn[d])] \in K /\ TurnLine(cs, turn[d], junk).id = cs[TurnEnd(cs, turn[d])].id
        BY <1>11
      <3>3. cs[TurnEnd(cs, turn[c])].id = cs[TurnEnd(cs, turn[d])].id
        BY <2>1, <3>1, <3>2
      <3> QED
        BY <1>10, <3>1, <3>2, <3>3
    <2>3. TurnEnd(cs, turn[c]) = TurnEnd(cs, turn[d])
      BY <1>2, <1>11, <2>2
    <2>4. turn[c] = turn[d]
      BY <1>8, <1>11, <2>3
    <2>5. idx[c] = idx[d]
      BY <1>2, <1>11, <2>1, <2>4
    <2> QED
      BY <1>11, <2>5
  <1>14. ASSUME NEW u \in U PROVE \E c \in K : g[c] = u
    <2>1. PICK l \in L : u \in {l} \X (1..l.count)
      OBVIOUS
    <2>2. PICK m \in 1..l.count : u = <<l, m>>
      BY <2>1
    <2>3. PICK c0 \in K : l.id = c0.id
      OBVIOUS
    <2>4. PICK i \in Turns(cs) : l = TurnLine(cs, i, junk) /\ cs[TurnEnd(cs, i)] = c0
      BY <1>1, <1>4, <2>3, LineOfChild
    <2>5. i \in 1..Len(cs) /\ TurnEnd(cs, i) \in i..Len(cs)
      BY <1>2, <1>3, TurnEnds
    <2>6. TurnEnd(cs, i) \in 1..Len(cs) /\ In(TurnEnd(cs, i), i)
      <3>1. Len(cs) \in Nat
        BY <1>2
      <3> HIDE DEF cs, K, L, U
      <3>2. TurnEnd(cs, i) \in 1..Len(cs) /\ i <= TurnEnd(cs, i) /\ TurnEnd(cs, i) <= TurnEnd(cs, i)
        BY <2>5, <3>1
      <3> QED
        BY <2>5, <3>2
    <2>7. /\ l.count = TurnEnd(cs, i) + 1 - i
          /\ \A n \in i..TurnEnd(cs, i) : n \in 1..Len(cs) /\ cs[n] \in K
      <3> HIDE DEF K, L, In
      <3> QED
        BY <1>7, <2>4, <2>6
    <2> DEFINE k == i + m - 1
               c == cs[k]
    <2>8. k \in i..TurnEnd(cs, i) /\ k - i + 1 = m
      <3> DEFINE e == TurnEnd(cs, i)
                 n == l.count
      <3>1. i \in Int /\ e \in Int /\ n = e + 1 - i /\ m \in 1..n
        BY <1>2, <2>5, <2>6, <2>7
      <3> HIDE DEF e, n
      <3>2. k \in i..e /\ k - i + 1 = m
        BY <3>1
      <3> QED
        BY <3>2 DEF e
    <2>9. k \in 1..Len(cs) /\ c \in K /\ In(k, i)
      <3>1. In(k, i)
        BY <2>5, <2>8
      <3> HIDE DEF K, L, In, k
      <3> QED
        BY <2>7, <2>8, <3>1
    <2> HIDE DEF turn, idx, g, K, L, In, U, k
    <2>10. idx[c] = k
      <3>1. idx[c] \in 1..Len(cs) /\ cs[idx[c]] = cs[k]
        BY <1>11, <2>9
      <3> QED
        BY <1>2, <2>9, <3>1
    <2>11. turn[c] = i
      BY <1>9, <1>11, <2>9, <2>10
    <2>12. g[c] = <<l, m>>
      BY <1>11, <2>4, <2>8, <2>9, <2>10, <2>11
    <2> QED
      BY <2>2, <2>9, <2>12
  <1>15. Cardinality(U) = Cardinality(K)
    <2> HIDE DEF g, U, K
    <2>1. g \in Bijection(K, U)
      BY <1>12, <1>13, <1>14, Fun_IsBij
    <2>2. ExistsBijection(K, U)
      BY <2>1, Fun_ExistsBij
    <2> QED
      BY <1>4, <2>2, FS_Bijection
  <1> QED
    BY <1>15 DEF Shown

\* pstree.c:250-261 and 432-456: what the loop of print_process_tree leaves out
\* of the output is counted in a line that it prints, if the children are sorted
\* by name, no command line hides a count and no two children of one name differ
\* in having children; without compaction each process has a line of its own.
THEOREM PstreeCompactionCounts == PstreeSpec => []CompactionCounts
  <1>1. PsInv => CompactionCounts
    <2> SUFFICES ASSUME PsInv, phase = "done",
                        ShowCompact => ~SortByPid /\ ~ShowCmdline /\ \A i \in Below(1) : ~Mixed(i),
                        NEW p \in Below(1), NEW nm \in Names
                 PROVE  Shown(p, nm)
      BY DEF CompactionCounts
    <2>1. \A i \in Below(1) : Plain(i)
      BY DEF Plain
    <2>2. p \in Ids /\ (p \in Called \/ tree[p].children = {})
      BY <2>1, CalledForParents
    <2>3. CASE tree[p].children = {}
      <3> DEFINE K == {c \in tree[p].children : c.name = nm /\ ~c.thread}
                 L == {l \in printed : ~l.thread /\ l.id \in {c.id : c \in K}}
                 U == UNION {{l} \X (1..l.count) : l \in L}
      <3>1. K = {}
        BY <2>3
      <3>2. L = {}
        BY <3>1
      <3>3. U = {}
        <4> HIDE DEF L
        <4> QED
          BY <3>2
      <3>4. Shown(p, nm) <=> Cardinality(U) = Cardinality(K)
        BY DEF Shown
      <3> HIDE DEF K, L, U
      <3> QED
        BY <3>1, <3>3, <3>4
    <2>4. CASE tree[p].children # {}
      <3>1. tree[1] # NULL
        <4>1. SUFFICES ASSUME tree[1] = NULL PROVE FALSE
          OBVIOUS
        <4>2. ChildStep[1] = {}
          BY <4>1, StepTypes DEF ChildStep, NULL
        <4>3. Closure(ChildStep, 1) \subseteq {1}
          <5>1. {1} \in SUBSET Ids /\ 1 \in {1} /\ \A z \in {1} : ChildStep[z] \subseteq {1}
            BY <4>2, StepTypes
          <5> QED
            BY <5>1, StepTypes, ClosureLeast
        <4>4. p = 1
          BY <4>3, StepTypes
        <4> QED
          BY <2>4, <4>1, <4>4 DEF NULL
      <3> QED
        BY <2>1, <2>2, <2>4, <3>1, ShownBelow
    <2> QED
      BY <2>3, <2>4
  <1> QED
    BY <1>1, PstreeInvariant, PTL

-----------------------------------------------------------------------------
(* Processes that exist all the time.                                      *)

\* Without wrap-around of the ids a parent has a lower id than its child, ids that
\* were in use at the beginning go to no other process, and none is beyond last.
Kinship ==
    /\ last >= FIRST
    /\ \A i \in Ids : task[i].kind # "none" => i <= last
    /\ \A i \in Ids : IsProcess(i) /\ i # 1 =>
          /\ task[i].parent \in Ids /\ task[i].parent < i
          /\ IsProcess(task[i].parent)
    /\ stay = {i \in Ids : i <= FIRST /\ IsProcess(i)}

\* An entry of process_tree that has been filled in.
IsRead(i) == tree[i].ppid # -1

\* What exists all the time and has not been read is still to come.
StillToCome ==
    phase # "overrun" =>
        \A q \in stay : IsRead(q) \/ /\ phase \in Reading
                                     /\ q > pos \/ q \in entries \/ (phase = "scan" /\ q = cur)

\* The parent that was read with a process was read before.
ParentsRead ==
    \A i \in Ids : i # 1 /\ i <= FIRST /\ i \notin bad /\ IsRead(i) =>
        tree[i].ppid \in Ids /\ tree[i].ppid < i /\ IsRead(tree[i].ppid)

\* The inductive invariant for processes that exist all the time.
StayInv == PsInv /\ Kinship /\ StillToCome /\ ParentsRead

\* At the start all that exists is still to come.
LEMMA StayInit == ~Recycle /\ PstreeInit => StayInv
  <1> SUFFICES ASSUME ~Recycle, PstreeInit PROVE StayInv
    OBVIOUS
  <1>1. /\ last = FIRST /\ phase = "readdir" /\ pos = 0 /\ entries = {}
        /\ tree = [i \in Ids |-> NULL] /\ stay = {i \in Ids : IsProcess(i)}
    BY DEF PstreeInit
  <1>2. PICK par \in [1..FIRST -> 1..FIRST], nm \in [1..FIRST -> Names], th \in SUBSET (2..FIRST) :
           /\ \A i \in 2..FIRST : par[i] \notin th /\ par[i] < i
           /\ task = FirstTasks(par, nm, th)
    BY DEF PstreeInit
  <1>3. FIRST \in Nat \ {0} /\ \A i \in 1..FIRST : i \in Ids
    BY IdsType
  <1>4. \A i \in Ids : task[i] = IF i > FIRST THEN NoTask
                                 ELSE [kind |-> IF i \in th THEN "thread" ELSE "process",
                                       parent |-> IF i = 1 THEN 0 ELSE par[i], name |-> nm[i]]
    BY <1>2 DEF FirstTasks
  <1>5. \A i \in Ids : i > FIRST => task[i].kind = "none"
    <2>1. NoTask.kind = "none"
      BY DEF NoTask
    <2> QED
      BY <1>4, <2>1
  <1>6. ASSUME NEW i \in Ids, ~(i > FIRST)
        PROVE  /\ task[i].kind = IF i \in th THEN "thread" ELSE "process"
               /\ (i # 1 => task[i].parent = par[i])
    <2>1. task[i] = [kind |-> IF i \in th THEN "thread" ELSE "process",
                     parent |-> IF i = 1 THEN 0 ELSE par[i], name |-> nm[i]]
      BY <1>4, <1>6
    <2> QED
      BY <2>1
  <1>7. \A i \in Ids : i \in Nat /\ (~(i > FIRST) <=> i <= FIRST)
    BY <1>3, IdsType
  <1>8. Kinship
    <2>1. last >= FIRST
      BY <1>1, <1>3
    <2>2. \A i \in Ids : task[i].kind # "none" => i <= last
      BY <1>1, <1>5, <1>7
    <2>3. ASSUME NEW i \in Ids, IsProcess(i), i # 1
          PROVE  task[i].parent \in Ids /\ task[i].parent < i /\ IsProcess(task[i].parent)
      <3>1. ~(i > FIRST)
        BY <1>5, <2>3 DEF IsProcess
      <3>2. i \in 2..FIRST
        BY <1>3, <1>7, <2>3, <3>1, IdsType
      <3>3. par[i] \in 1..FIRST /\ par[i] \notin th /\ par[i] < i
        BY <1>2, <1>3, <3>2
      <3>4. par[i] \in Ids /\ ~(par[i] > FIRST)
        BY <1>3, <3>3
      <3>5. task[par[i]].kind = "process"
        BY <1>6, <3>3, <3>4
      <3> QED
        BY <1>6, <2>3, <3>1, <3>3, <3>4, <3>5 DEF IsProcess
    <2>4. stay = {i \in Ids : i <= FIRST /\ IsProcess(i)}
      BY <1>1, <1>5, <1>7 DEF IsProcess
    <2> QED
      BY <2>1, <2>2, <2>3, <2>4 DEF Kinship
  <1>9. StillToCome
    <2>1. \A q \in stay : q > pos
      BY <1>1, IdsType
    <2> QED
      BY <1>1, <2>1 DEF StillToCome, Reading
  <1>10. ParentsRead
    BY <1>1 DEF ParentsRead, IsRead, NULL
  <1> QED
    BY <1>8, <1>9, <1>10, PstreeInitInv DEF StayInv

\* fork gives out an id beyond all others.
LEMMA KinNewTask ==
  ASSUME StayInv, ~Recycle, NEW p \in Ids, NEW nm \in Names, NEW kind \in {"process", "thread"},
         NewTask(p, kind, nm)
  PROVE  Kinship'
  <1>1. PsTypes /\ InitProcess /\ Kinship
    BY DEF StayInv, PsInv
  <1>2. FreeIds # {} /\ IsProcess(p) /\ stay' = stay
    BY DEF NewTask
  <1>3. PICK i \in FreeIds : /\ task' = [task EXCEPT ![i] = [kind |-> kind, parent |-> p, name |-> nm]]
                             /\ last' = Max({last, i})
    BY <1>1, <1>2, NewId DEF NewTask
  <1>4. i \in Ids /\ i > last /\ task[i].kind = "none"
    BY <1>3 DEF FreeIds
  <1>5. last' >= last /\ last' >= i /\ last' \in {last, i}
    BY <1>1, <1>2, <1>3, NewId
  <1>6. /\ \A j \in Ids : j # i => task'[j] = task[j]
        /\ task'[i] = [kind |-> kind, parent |-> p, name |-> nm]
    BY <1>1, <1>3, <1>4 DEF PsTypes
  <1>7. task'[i].parent = p /\ task'[i].kind = kind
    BY <1>6
  <1>8. last \in Nat /\ FIRST \in Nat /\ i \in Nat /\ p \in Nat /\ \A j \in Ids : j \in Nat
    BY <1>1, <1>4, IdsType DEF PsTypes
  <1>9. last >= FIRST /\ \A j \in Ids : task[j].kind # "none" => j <= last
    BY <1>1 DEF Kinship
  <1>10. last' >= FIRST /\ \A j \in Ids : task'[j].kind # "none" => j <= last'
    <2>1. last' \in Nat /\ last' >= FIRST
      BY <1>5, <1>8, <1>9
    <2>2. \A j \in Ids : j # i /\ task'[j].kind # "none" => j <= last
      BY <1>6, <1>9
    <2>3. \A j \in Ids : j <= last => j <= last'
      BY <1>5, <1>8, <2>1
    <2> QED
      BY <1>5, <2>1, <2>2, <2>3
  <1>11. p <= last /\ p # i /\ p < i
    BY <1>2, <1>4, <1>8, <1>9 DEF IsProcess
  <1>12. \A j \in Ids : IsProcess(j) => IsProcess(j)'
    BY <1>4, <1>6 DEF IsProcess
  <1>13. ASSUME NEW j \in Ids, IsProcess(j)', j # 1
         PROVE  task'[j].parent \in Ids /\ task'[j].parent < j /\ task'[task'[j].parent].kind = "process"
    <2>1. CASE j = i
      BY <1>2, <1>6, <1>7, <1>11, <2>1 DEF IsProcess
    <2>2. CASE j # i
      <3>1. IsProcess(j) /\ task'[j] = task[j]
        BY <1>6, <1>13, <2>2 DEF IsProcess
      <3>2. task[j].parent \in Ids /\ task[j].parent < j /\ IsProcess(task[j].parent)
        BY <1>1, <1>13, <3>1 DEF Kinship
      <3>3. task[j].parent # i
        BY <1>4, <3>2 DEF IsProcess
      <3> QED
        BY <1>6, <3>1, <3>2, <3>3 DEF IsProcess
    <2> QED
      BY <2>1, <2>2
  <1>14. stay' = {j \in Ids : j <= FIRST /\ IsProcess(j)'}
    <2>1. stay = {j \in Ids : j <= FIRST /\ IsProcess(j)}
      BY <1>1 DEF Kinship
    <2>2. \A j \in Ids : j <= FIRST => (IsProcess(j) <=> IsProcess(j)')
      BY <1>4, <1>6, <1>8, <1>9 DEF IsProcess
    <2> QED
      BY <1>2, <2>1, <2>2
  <1> QED
    BY <1>10, <1>13, <1>14 DEF Kinship, IsProcess

\* Children go to init, which has the lowest id and does not exit.
LEMMA KinExitProcess ==
  ASSUME StayInv, NEW p \in Ids, ExitProcess(p)
  PROVE  Kinship'
  <1>1. PsTypes /\ InitProcess /\ Kinship
    BY DEF StayInv, PsInv
  <1>2. /\ p # 1 /\ last' = last /\ stay' = stay \ {p}
        /\ task' = [i \in Ids |-> IF i = p \/ i \in Threads(p) THEN NoTask
                                  ELSE IF task[i].parent = p THEN [task[i] EXCEPT !.parent = 1]
                                  ELSE task[i]]
    BY DEF ExitProcess
  <1>3. \A i \in Ids : task'[i] = IF i = p \/ i \in Threads(p) THEN NoTask
                                  ELSE IF task[i].parent = p THEN [task[i] EXCEPT !.parent = 1]
                                  ELSE task[i]
    BY <1>2
  <1>4. \A i \in Ids : task'[i].kind = IF i = p \/ i \in Threads(p) THEN "none" ELSE task[i].kind
    <2>1. ASSUME NEW i \in Ids PROVE [task[i] EXCEPT !.parent = 1].kind = task[i].kind
      <3>1. task[i] \in Tasks
        BY <1>1 DEF PsTypes
      <3> QED
        BY <3>1 DEF Tasks
    <2>2. NoTask.kind = "none"
      BY DEF NoTask
    <2> QED
      BY <1>3, <2>1, <2>2
  <1>5. \A i \in Ids : IsProcess(i) => i \notin Threads(p)
    BY DEF IsProcess, Threads
  <1>6. \A i \in Ids : IsProcess(i)' <=> IsProcess(i) /\ i # p
    BY <1>4, <1>5 DEF IsProcess, Threads
  <1>7. ASSUME NEW j \in Ids, IsProcess(j)', j # 1
        PROVE  task'[j].parent \in Ids /\ task'[j].parent < j /\ task'[task'[j].parent].kind = "process"
    <2>1. IsProcess(j) /\ j # p /\ j \notin Threads(p)
      BY <1>5, <1>6, <1>7
    <2>2. task[j].parent \in Ids /\ task[j].parent < j /\ IsProcess(task[j].parent)
      BY <1>1, <1>7, <2>1 DEF Kinship
    <2>3. CASE task[j].parent = p
      <3>1. task[j] \in Tasks
        BY <1>1 DEF PsTypes
      <3>2. task'[j] = [task[j] EXCEPT !.parent = 1]
        BY <1>3, <2>1, <2>3
      <3>3. task'[j].parent = 1
        BY <3>1, <3>2 DEF Tasks
      <3>4. 1 \in Ids /\ 1 < j
        BY <1>7, IdsType
      <3>5. task'[1].kind = "process"
        BY <1>1, <1>2, <1>6, <3>4 DEF InitProcess, IsProcess
      <3> QED
        BY <3>3, <3>4, <3>5 DEF IsProcess
    <2>4. CASE task[j].parent # p
      <3>1. task'[j] = task[j]
        BY <1>3, <2>1, <2>4
      <3>2. task'[task[j].parent].kind = "process"
        BY <1>6, <2>2, <2>4 DEF IsProcess
      <3> QED
        BY <2>2, <3>1, <3>2 DEF IsProcess
    <2> QED
      BY <2>3, <2>4
  <1>8. stay' = {i \in Ids : i <= FIRST /\ IsProcess(i)'}
    <2>1. stay = {i \in Ids : i <= FIRST /\ IsProcess(i)}
      BY <1>1 DEF Kinship
    <2> QED
      BY <1>2, <1>6, <2>1
  <1>9. last' >= FIRST /\ \A i \in Ids : task'[i].kind # "none" => i <= last'
    BY <1>1, <1>2, <1>4 DEF Kinship
  <1> QED
    BY <1>7, <1>8, <1>9 DEF Kinship, IsProcess

\* A thread that ends has no children.
LEMMA KinExitThread ==
  ASSUME StayInv, NEW t \in Ids, ExitThread(t)
  PROVE  Kinship'
  <1>1. PsTypes /\ Kinship
    BY DEF StayInv, PsInv
  <1>2. task[t].kind = "thread" /\ task' = [task EXCEPT ![t] = NoTask] /\ last' = last /\ stay' = stay
    BY DEF ExitThread
  <1>3. task'[t] = NoTask /\ \A j \in Ids : j # t => task'[j] = task[j]
    BY <1>1, <1>2 DEF PsTypes
  <1>4. task'[t].kind = "none"
    BY <1>3 DEF NoTask
  <1>5. \A j \in Ids : (IsProcess(j)' <=> IsProcess(j)) /\ (IsProcess(j) => task'[j] = task[j])
    BY <1>2, <1>3, <1>4 DEF IsProcess
  <1>6. last' >= FIRST /\ \A i \in Ids : task'[i].kind # "none" => i <= last'
    BY <1>1, <1>2, <1>3, <1>4 DEF Kinship
  <1>7. ASSUME NEW j \in Ids, IsProcess(j)', j # 1
        PROVE  task'[j].parent \in Ids /\ task'[j].parent < j /\ task'[task'[j].parent].kind = "process"
    <2>1. IsProcess(j) /\ task'[j] = task[j]
      BY <1>5, <1>7
    <2>2. task[j].parent \in Ids /\ task[j].parent < j /\ IsProcess(task[j].parent)
      BY <1>1, <1>7, <2>1 DEF Kinship
    <2> QED
      BY <1>5, <2>1, <2>2 DEF IsProcess
  <1>8. stay' = {i \in Ids : i <= FIRST /\ IsProcess(i)'}
    <2>1. stay = {i \in Ids : i <= FIRST /\ IsProcess(i)}
      BY <1>1 DEF Kinship
    <2> QED
      BY <1>2, <1>5, <2>1
  <1> QED
    BY <1>6, <1>7, <1>8 DEF Kinship, IsProcess

\* A kernel step changes nothing of what has been read; processes that exist all
\* the time do not become more.
LEMMA StayEvent ==
  ASSUME StayInv, Event, stay' \subseteq stay
  PROVE  StillToCome' /\ ParentsRead'
  <1>1. /\ phase' = phase /\ entries' = entries /\ pos' = pos /\ cur' = cur /\ tree' = tree /\ bad' = bad
    BY DEF Event
  <1>2. StillToCome /\ ParentsRead
    BY DEF StayInv
  <1>3. StillToCome'
    BY <1>1, <1>2 DEF StillToCome, IsRead
  <1>4. ParentsRead'
    BY <1>1, <1>2 DEF ParentsRead, IsRead
  <1> QED
    BY <1>3, <1>4

\* A step of pstree leaves the kernel alone.
LEMMA KinSame ==
  ASSUME StayInv, UNCHANGED kernel
  PROVE  Kinship'
  <1>1. task' = task /\ last' = last /\ stay' = stay
    BY DEF kernel
  <1> QED
    BY <1>1 DEF StayInv, Kinship, IsProcess

\* A step that leaves what has been read as it is, and the stat lines that could
\* not be read, keeps the parents.
LEMMA ParentsSame ==
  ASSUME StayInv, bad' = bad, \A i \in Ids : tree'[i].ppid = tree[i].ppid
  PROVE  ParentsRead'
  <1>1. ParentsRead
    BY DEF StayInv
  <1>2. \A i \in Ids : IsRead(i)' <=> IsRead(i)
    BY DEF IsRead
  <1>3. ASSUME NEW i \in Ids, i # 1, i <= FIRST, i \notin bad', IsRead(i)'
        PROVE  tree'[i].ppid \in Ids /\ tree'[i].ppid < i /\ tree'[tree'[i].ppid].ppid # -1
    <2>1. tree[i].ppid \in Ids /\ tree[i].ppid < i /\ IsRead(tree[i].ppid)
      BY <1>1, <1>2, <1>3 DEF ParentsRead
    <2> QED
      BY <1>2, <2>1 DEF IsRead
  <1> QED
    BY <1>3 DEF ParentsRead, IsRead

\* readdir skips no process that exists when it looks.
LEMMA StayReadDir ==
  ASSUME StayInv, ReadDir
  PROVE  StillToCome' /\ ParentsRead'
  <1> DEFINE more == {i \in Ids : IsProcess(i) /\ i > pos}
  <1>1. PsTypes /\ Kinship /\ StillToCome
    BY DEF StayInv, PsInv
  <1>2. /\ phase = "readdir" /\ entries = {} /\ stay' = stay
        /\ cur' = cur /\ tree' = tree /\ bad' = bad
    BY DEF ReadDir, kernel
  <1>3. \/ more = {} /\ phase' = "link" /\ entries' = entries /\ pos' = pos
        \/ \E k \in more : entries' = {i \in more : i <= k} /\ pos' = k /\ phase' = phase
    BY DEF ReadDir
  <1>4. ASSUME NEW q \in stay, ~IsRead(q) PROVE q \in more /\ q \in Nat
    <2>1. q > pos /\ q \in Ids /\ IsProcess(q)
      BY <1>1, <1>2, <1>4 DEF StillToCome, Kinship
    <2> QED
      BY <2>1, IdsType
  <1>5. \A i \in more : i \in Nat
    BY IdsType
  <1> HIDE DEF more
  <1>6. StillToCome'
    <2>1. CASE more = {} /\ phase' = "link"
      BY <1>2, <1>4, <2>1 DEF StillToCome, IsRead
    <2>2. ASSUME NEW k \in more, entries' = {i \in more : i <= k}, pos' = k, phase' = phase
          PROVE  StillToCome'
      <3>1. \A q \in stay : IsRead(q) \/ q > pos' \/ q \in entries'
        BY <1>4, <1>5, <2>2
      <3> QED
        BY <1>2, <2>2, <3>1 DEF StillToCome, IsRead, Reading
    <2> QED
      BY <1>3, <2>1, <2>2
  <1> QED
    BY <1>2, <1>6, ParentsSame

\* The stat file of a process that exists can be opened.
LEMMA StayOpenStat ==
  ASSUME StayInv, OpenStat
  PROVE  StillToCome' /\ ParentsRead'
  <1>1. PsTypes /\ Kinship /\ StillToCome
    BY DEF StayInv, PsInv
  <1>2. /\ phase = "readdir" /\ entries' = entries \ {cur'} /\ stay' = stay /\ pos' = pos
        /\ tree' = tree /\ bad' = bad
        /\ phase' = IF IsProcess(cur') THEN "scan" ELSE "readdir"
    BY DEF OpenStat, kernel
  <1>3. \A q \in stay : IsRead(q) \/ q > pos \/ q \in entries
    BY <1>1, <1>2 DEF StillToCome
  <1>4. \A q \in stay : q = cur' => phase' = "scan"
    BY <1>1, <1>2 DEF Kinship
  <1>5. phase' \in Reading
    BY <1>2 DEF Reading
  <1>6. StillToCome'
    BY <1>2, <1>3, <1>4, <1>5 DEF StillToCome, IsRead
  <1> QED
    BY <1>2, <1>6, ParentsSame

\* The parent that a process has when its stat line is read has a lower id, and
\* is there since the start: readdir has already come by.
LEMMA StayScanStat ==
  ASSUME StayInv, ScanStat
  PROVE  StillToCome' /\ ParentsRead'
  <1>1. PsTypes /\ InitProcess /\ Progress /\ Kinship /\ StillToCome /\ ParentsRead
    BY DEF StayInv, PsInv
  <1>2. /\ phase = "scan" /\ entries' = entries /\ stay' = stay /\ pos' = pos /\ cur' = cur
        /\ bad' = (IF open /\ task[cur].name \notin Spaced THEN bad ELSE bad \cup {cur})
        /\ phase' = IF cur >= MAX_PROCESSES THEN "overrun" ELSE "threads"
    BY DEF ScanStat, kernel
  <1>3. PICK nm \in (IF open THEN {task[cur].name} ELSE Names),
             pp \in (IF open /\ task[cur].name \notin Spaced THEN {task[cur].parent} ELSE Ids \cup {0}) :
           tree' = [tree EXCEPT ![cur] = [ppid |-> pp, name |-> nm, cmdline |-> "empty", children |-> {}]]
    BY DEF ScanStat
  <1>4. cur \in Ids /\ cur <= pos /\ pos \in Nat
    BY <1>1, <1>2, IdsType DEF Progress, Reading, PsTypes
  <1>5. /\ tree'[cur] = [ppid |-> pp, name |-> nm, cmdline |-> "empty", children |-> {}]
        /\ \A i \in Ids : i # cur => tree'[i] = tree[i]
    BY <1>1, <1>3, <1>4 DEF PsTypes
  <1>6. tree'[cur].ppid = pp
    BY <1>5
  <1>7. pp \in Ids \cup {0}
    <2>1. CASE open /\ task[cur].name \notin Spaced
      <3>1. task[cur] \in Tasks
        BY <1>1, <1>4 DEF PsTypes
      <3>2. task[cur].parent \in Ids \cup {0}
        BY <3>1 DEF Tasks
      <3> QED
        BY <2>1, <3>2
    <2>2. CASE ~(open /\ task[cur].name \notin Spaced)
      BY <2>2
    <2> QED
      BY <2>1, <2>2
  <1>8. IsRead(cur)' /\ \A i \in Ids : IsRead(i) => IsRead(i)'
    <2>1. pp # -1
      BY <1>7, IdsType
    <2> QED
      BY <1>2, <1>5, <1>6, <2>1 DEF IsRead
  <1>9. StillToCome'
    <2>1. SUFFICES ASSUME phase' # "overrun", NEW q \in stay
                   PROVE  IsRead(q)' \/ (phase' \in Reading /\ (q > pos' \/ q \in entries'))
      BY <1>2 DEF StillToCome, IsRead
    <2>2. phase' \in Reading
      BY <1>2, <2>1 DEF Reading
    <2>3. q \in Ids
      BY <1>1 DEF PsTypes
    <2>4. IsRead(q) \/ q > pos \/ q \in entries \/ q = cur
      BY <1>1, <1>2 DEF StillToCome
    <2> QED
      BY <1>2, <1>8, <2>2, <2>3, <2>4
  <1>10. ASSUME NEW i \in Ids, i # 1, i <= FIRST, i \notin bad', IsRead(i)'
         PROVE  tree'[i].ppid \in Ids /\ tree'[i].ppid < i /\ tree'[tree'[i].ppid].ppid # -1
    <2>1. CASE i = cur
      <3>1. open /\ task[cur].name \notin Spaced
        BY <1>2, <1>10, <2>1
      <3>2. IsProcess(i) /\ pp = task[i].parent
        BY <1>1, <1>2, <2>1, <3>1 DEF Progress
      <3>3. pp \in Ids /\ pp < i /\ IsProcess(pp)
        BY <1>1, <1>10, <3>2 DEF Kinship
      <3>4. FIRST \in Nat /\ pp \in Nat /\ i \in Nat
        BY <3>3, IdsType
      <3>5. pp \in stay
        <4>1. pp <= FIRST
          BY <1>10, <3>3, <3>4
        <4> QED
          BY <1>1, <3>3, <4>1 DEF Kinship
      <3>6. ~(pp > pos) /\ pp # cur
        BY <1>4, <2>1, <3>3, <3>4
      <3>7. pp \notin entries
        <4>1. \A e \in entries : e > cur /\ e \in Nat
          BY <1>1, IdsType DEF Progress, PsTypes
        <4> QED
          BY <2>1, <3>3, <3>4, <4>1
      <3>8. IsRead(pp)
        BY <1>1, <1>2, <3>5, <3>6, <3>7 DEF StillToCome
      <3>9. tree'[pp].ppid # -1
        BY <1>5, <3>3, <3>6, <3>8 DEF IsRead
      <3> QED
        BY <1>6, <2>1, <3>3, <3>9
    <2>2. CASE i # cur
      <3>1. tree'[i] = tree[i] /\ i \notin bad /\ IsRead(i)
        BY <1>2, <1>5, <1>10, <2>2 DEF IsRead
      <3>2. tree[i].ppid \in Ids /\ tree[i].ppid < i /\ IsRead(tree[i].ppid)
        BY <1>1, <1>10, <3>1 DEF ParentsRead
      <3> QED
        BY <1>8, <3>1, <3>2 DEF IsRead
    <2> QED
      BY <2>1, <2>2
  <1> QED
    BY <1>9, <1>10 DEF ParentsRead, IsRead

\* The steps after the stat line of a process fill in other fields.
LEMMA FieldSame ==
  ASSUME PsInv, phase \in {"threads", "cmdline"}, NEW e, e.ppid = tree[cur].ppid,
         tree' = [tree EXCEPT ![cur] = e]
  PROVE  \A i \in Ids : tree'[i].ppid = tree[i].ppid
  BY DEF PsInv, PsTypes

\* Reading threads keeps the parent that was read,
LEMMA StayReadThreads ==
  ASSUME StayInv, ReadThreads
  PROVE  StillToCome' /\ ParentsRead'
  <1> DEFINE th == IF ShowThreads THEN Threads(cur) ELSE {}
             ch == {ChildNode(i, IF "t" \in opts THEN task[i].name ELSE tree[cur].name, TRUE) : i \in th}
  <1>1. /\ phase = "threads" /\ phase' \in {"overrun", "cmdline"} /\ entries' = entries /\ stay' = stay
        /\ pos' = pos /\ cur' = cur /\ bad' = bad /\ tree' = [tree EXCEPT ![cur].children = ch]
    BY DEF ReadThreads, kernel
  <1> HIDE DEF ch
  <1>2. PsTypes /\ cur \in Ids /\ StillToCome
    BY <1>1 DEF StayInv, PsInv, Progress, Reading
  <1>3. \A i \in Ids : tree'[i].ppid = tree[i].ppid
    <2>1. tree[cur] \in Entry
      BY <1>2 DEF PsTypes
    <2>2. tree' = [tree EXCEPT ![cur] = [tree[cur] EXCEPT !.children = ch]]
      BY <1>1
    <2>3. [tree[cur] EXCEPT !.children = ch].ppid = tree[cur].ppid
      BY <2>1 DEF Entry
    <2> QED
      BY <1>1, <2>2, <2>3, FieldSame DEF StayInv
  <1>4. StillToCome'
    <2>1. \A q \in stay : q \in Ids
      BY <1>2 DEF PsTypes
    <2>2. \A q \in stay : IsRead(q) \/ q > pos \/ q \in entries
      BY <1>1, <1>2 DEF StillToCome
    <2>3. \A q \in stay : IsRead(q)' <=> IsRead(q)
      BY <1>1, <1>3, <2>1 DEF IsRead
    <2> QED
      BY <1>1, <2>2, <2>3 DEF StillToCome, Reading, IsRead
  <1> QED
    BY <1>1, <1>3, <1>4, ParentsSame

\* as does reading the command line,
LEMMA StayReadCmdline ==
  ASSUME StayInv, ReadCmdline
  PROVE  StillToCome' /\ ParentsRead'
  <1> DEFINE cl == IF ~ShowCmdline THEN "empty" ELSE IF IsProcess(cur) THEN "command" ELSE "()"
  <1>1. /\ phase = "cmdline" /\ phase' = "readdir" /\ entries' = entries /\ stay' = stay
        /\ pos' = pos /\ cur' = cur /\ bad' = bad /\ tree' = [tree EXCEPT ![cur].cmdline = cl]
    BY DEF ReadCmdline, kernel
  <1> HIDE DEF cl
  <1>2. PsTypes /\ cur \in Ids /\ StillToCome
    BY <1>1 DEF StayInv, PsInv, Progress, Reading
  <1>3. \A i \in Ids : tree'[i].ppid = tree[i].ppid
    <2>1. tree[cur] \in Entry
      BY <1>2 DEF PsTypes
    <2>2. tree' = [tree EXCEPT ![cur] = [tree[cur] EXCEPT !.cmdline = cl]]
      BY <1>1
    <2>3. [tree[cur] EXCEPT !.cmdline = cl].ppid = tree[cur].ppid
      BY <2>1 DEF Entry
    <2> QED
      BY <1>1, <2>2, <2>3, FieldSame DEF StayInv
  <1>4. StillToCome'
    <2>1. \A q \in stay : q \in Ids
      BY <1>2 DEF PsTypes
    <2>2. \A q \in stay : IsRead(q) \/ q > pos \/ q \in entries
      BY <1>1, <1>2 DEF StillToCome
    <2>3. \A q \in stay : IsRead(q)' <=> IsRead(q)
      BY <1>1, <1>3, <2>1 DEF IsRead
    <2> QED
      BY <1>1, <2>2, <2>3 DEF StillToCome, Reading, IsRead
  <1> QED
    BY <1>1, <1>3, <1>4, ParentsSame

\* and build_process_tree.
LEMMA StayLink ==
  ASSUME StayInv, Link
  PROVE  StillToCome' /\ ParentsRead'
  <1>1. /\ phase = "link" /\ stay' = stay /\ bad' = bad
        /\ tree' = [i \in Ids |-> IF tree[i] = NULL THEN NULL
                                  ELSE [tree[i] EXCEPT !.children = @ \cup Linked(i)]]
    BY DEF Link, kernel
  <1>2. PsTypes /\ StillToCome
    BY DEF StayInv, PsInv
  <1>3. ASSUME NEW i \in Ids PROVE tree'[i].ppid = tree[i].ppid
    <2>1. tree[i] \in Entry
      BY <1>2 DEF PsTypes
    <2>2. [tree[i] EXCEPT !.children = @ \cup Linked(i)].ppid = tree[i].ppid
      BY <2>1 DEF Entry
    <2>3. tree'[i] = IF tree[i] = NULL THEN NULL ELSE [tree[i] EXCEPT !.children = @ \cup Linked(i)]
      BY <1>1
    <2> QED
      BY <2>2, <2>3
  <1>4. StillToCome'
    <2>1. \A q \in stay : q \in Ids
      BY <1>2 DEF PsTypes
    <2>2. \A q \in stay : IsRead(q)
      BY <1>1, <1>2 DEF StillToCome, Reading
    <2>3. \A q \in stay : IsRead(q)'
      BY <1>1, <1>3, <2>1, <2>2 DEF IsRead
    <2> QED
      BY <1>1, <2>3 DEF StillToCome, IsRead
  <1> QED
    BY <1>1, <1>3, <1>4, ParentsSame

\* Sorting and printing keep the tree.
LEMMA StayOutput ==
  ASSUME StayInv, SortChildren \/ print_process_tree
  PROVE  StillToCome' /\ ParentsRead'
  <1>1. phase \in {"sort", "print"} /\ stay' = stay /\ bad' = bad /\ tree' = tree
    BY DEF SortChildren, print_process_tree, kernel
  <1>2. \A q \in stay : IsRead(q)
    BY <1>1 DEF StayInv, StillToCome, Reading
  <1>3. StillToCome'
    BY <1>1, <1>2 DEF StillToCome, IsRead
  <1> QED
    BY <1>1, <1>3, ParentsSame

\* All steps keep the invariant.
LEMMA StayNext == ~Recycle /\ StayInv /\ [PstreeNext]_ps_vars => StayInv'
  <1> SUFFICES ASSUME ~Recycle, StayInv, [PstreeNext]_ps_vars PROVE StayInv'
    OBVIOUS
  <1>1. PsInv'
    BY PstreeNextInv DEF StayInv
  <1>2. ASSUME NEW p \in Ids, NEW nm \in Names, NEW kind \in {"process", "thread"}, NewTask(p, kind, nm)
        PROVE  Kinship' /\ StillToCome' /\ ParentsRead'
    <2>1. Event /\ stay' \subseteq stay
      BY <1>2 DEF NewTask
    <2> QED
      BY <1>2, <2>1, KinNewTask, StayEvent
  <1>3. ASSUME NEW i \in Ids, ExitProcess(i) PROVE Kinship' /\ StillToCome' /\ ParentsRead'
    <2>1. Event /\ stay' \subseteq stay
      BY <1>3 DEF ExitProcess
    <2> QED
      BY <1>3, <2>1, KinExitProcess, StayEvent
  <1>4. ASSUME NEW i \in Ids, ExitThread(i) PROVE Kinship' /\ StillToCome' /\ ParentsRead'
    <2>1. Event /\ stay' \subseteq stay
      BY <1>4 DEF ExitThread
    <2> QED
      BY <1>4, <2>1, KinExitThread, StayEvent
  <1>5. CASE ReadDir
    <2>1. UNCHANGED kernel
      BY <1>5 DEF ReadDir
    <2> QED
      BY <1>1, <1>5, <2>1, KinSame, StayReadDir DEF StayInv
  <1>6. CASE OpenStat
    <2>1. UNCHANGED kernel
      BY <1>6 DEF OpenStat
    <2> QED
      BY <1>1, <1>6, <2>1, KinSame, StayOpenStat DEF StayInv
  <1>7. CASE ScanStat
    <2>1. UNCHANGED kernel
      BY <1>7 DEF ScanStat
    <2> QED
      BY <1>1, <1>7, <2>1, KinSame, StayScanStat DEF StayInv
  <1>8. CASE ReadThreads
    <2>1. UNCHANGED kernel
      BY <1>8 DEF ReadThreads
    <2> QED
      BY <1>1, <1>8, <2>1, KinSame, StayReadThreads DEF StayInv
  <1>9. CASE ReadCmdline
    <2>1. UNCHANGED kernel
      BY <1>9 DEF ReadCmdline
    <2> QED
      BY <1>1, <1>9, <2>1, KinSame, StayReadCmdline DEF StayInv
  <1>10. CASE Link
    <2>1. UNCHANGED kernel
      BY <1>10 DEF Link
    <2> QED
      BY <1>1, <1>10, <2>1, KinSame, StayLink DEF StayInv
  <1>11. CASE SortChildren \/ print_process_tree
    <2>1. UNCHANGED kernel
      BY <1>11 DEF SortChildren, print_process_tree
    <2> QED
      BY <1>1, <1>11, <2>1, KinSame, StayOutput DEF StayInv
  <1>12. CASE UNCHANGED ps_vars
    <2>1. /\ UNCHANGED kernel /\ phase' = phase /\ entries' = entries /\ pos' = pos /\ cur' = cur
          /\ tree' = tree /\ bad' = bad /\ stay' = stay
      BY <1>12 DEF ps_vars, kernel
    <2>2. StillToCome'
      BY <2>1 DEF StayInv, StillToCome, IsRead
    <2> QED
      BY <1>1, <2>1, <2>2, KinSame, ParentsSame DEF StayInv
  <1> QED
    BY <1>1, <1>2, <1>3, <1>4, <1>5, <1>6, <1>7, <1>8, <1>9, <1>10, <1>11, <1>12
       DEF PstreeNext, StayInv

\* pstree.c:140-240: pstree takes no snapshot of /proc, yet a process that exists
\* from the start to the end of the reading is in the tree below process 1,
\* unless the stat line of such a process or of a parent that was read could not
\* be read.  That ids are not given out again while pstree reads is needed:
\* with it a process can be handed to a parent of a higher id, and another
\* process can have taken the id that was read.
THEOREM StayersStayInTree ==
  ASSUME ~Recycle
  PROVE  PstreeSpec => []StayersInTree
  <1>1. StayInv => StayersInTree
    <2> SUFFICES ASSUME StayInv, phase = "done", bad \cap (stay \cup {tree[i].ppid : i \in Ids \ bad}) = {},
                        NEW s \in stay
                 PROVE  s \in Below(1)
      BY DEF StayersInTree
    <2>1. PsInv /\ Kinship /\ ParentsRead /\ 1 \in stay
      BY DEF StayInv, PsInv, InitProcess
    <2>2. \A q \in stay : IsRead(q) /\ q \notin bad /\ q \in Ids /\ q <= FIRST
      <3>1. \A q \in stay : IsRead(q)
        BY DEF StayInv, StillToCome, Reading
      <3> QED
        BY <2>1, <3>1 DEF Kinship
    <2>3. /\ ChildStep \in [Ids -> SUBSET Ids] /\ Below(1) = Closure(ChildStep, 1) /\ 1 \in Ids
      BY <2>1, StepTypes
    <2>4. 1 \in Below(1) /\ \A z \in Below(1) : ChildStep[z] \subseteq Below(1)
      BY <2>3, ClosureGrows
    <2> DEFINE Lost == {i \in Ids : i <= FIRST /\ i \notin bad /\ IsRead(i) /\ i \notin Below(1)}
    <2>5. SUFFICES ASSUME Lost # {} PROVE FALSE
      BY <2>2
    <2>6. PICK i \in Lost : \A y \in Lost : i <= y
      <3>1. Lost \subseteq Nat
        BY IdsType
      <3> HIDE DEF Lost
      <3> QED
        BY <2>5, <3>1, LeastNat
    <2> DEFINE q == tree[i].ppid
    <2>7. i \in Ids /\ i <= FIRST /\ i \notin bad /\ IsRead(i) /\ i \notin Below(1) /\ i # 1
      BY <2>4
    <2>8. q \in Ids /\ q < i /\ IsRead(q) /\ q \notin bad
      BY <2>1, <2>7 DEF ParentsRead
    <2>9. q \notin Lost
      <3>1. i \in Nat /\ q \in Nat
        BY <2>7, <2>8, IdsType
      <3> HIDE DEF Lost, q
      <3> QED
        BY <2>6, <2>8, <3>1
    <2>10. q \in Below(1)
      <3>1. i \in Nat /\ q \in Nat /\ FIRST \in Nat
        BY <2>7, <2>8, IdsType
      <3>2. q <= FIRST
        BY <2>7, <2>8, <3>1
      <3> QED
        BY <2>8, <2>9, <3>2
    <2>11. tree[i] # NULL /\ tree[q] # NULL
      BY <2>7, <2>8 DEF IsRead, NULL
    <2> DEFINE c == ChildNode(i, tree[i].name, FALSE)
    <2>12. c \in Linked(q)
      BY <2>7, <2>11 DEF Linked
    <2>13. c \in Kids(q)
      BY <2>1, <2>8, <2>11, <2>12, DoneFacts
    <2>14. c.id = i /\ ~c.thread /\ c \in tree[q].children
      BY <2>13 DEF ChildNode, Kids
    <2>15. i \in ChildStep[q]
      <3> HIDE DEF c, q
      <3> QED
        BY <2>8, <2>14 DEF ChildStep
    <2> QED
      BY <2>4, <2>7, <2>10, <2>15
  <1>2. PstreeInit => StayInv
    BY StayInit
  <1>3. StayInv /\ [PstreeNext]_ps_vars => StayInv'
    BY StayNext
  <1> QED
    BY <1>1, <1>2, <1>3, PTL DEF PstreeSpec
=============================================================================
