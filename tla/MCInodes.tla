------------------------------ MODULE MCInodes ------------------------------
(* Two names of different lengths; the processes are interchangeable.       *)
EXTENDS Inodes, TLC

CONSTANTS short, long

Lengths == short :> 1 @@ long :> 2
Interchangeable == Permutations(Procs)
=============================================================================
