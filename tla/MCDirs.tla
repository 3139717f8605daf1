------------------------------- MODULE MCDirs -------------------------------
(* Short paths over one name; the processes are interchangeable.             *)
EXTENDS Dirs, TLC

CONSTANTS a

Abs(s) == [abs |-> TRUE, elems |-> s]
Rel(s) == [abs |-> FALSE, elems |-> s]

\* A name, one and two levels up from the current directory, two levels down from
\* the root.
TreePaths == {Rel(<<a>>), Rel(<<"..">>), Abs(<<a, a>>), Rel(<<"..", "..">>)}
\* One name, below the current directory or below its "..".
StrayPaths == {Rel(<<a>>), Rel(<<"..", a>>)}

\* Bound: once somebody has followed a ".." that was freed, the calls that have
\* begun come to their end and no other begins.  (Link counts are then unbounded.)
NoCallAfterStraying ==
    strayed => \A p \in Procs : th[p].pc = "idle" => th'[p].pc = "idle"

Interchangeable == Permutations(Procs)
=============================================================================
