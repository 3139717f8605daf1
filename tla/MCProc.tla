------------------------------- MODULE MCProc -------------------------------
(* init, more slots, one or two CPUs.                                        *)
EXTENDS Proc, TLC

Interchangeable == Permutations(Procs \ {initproc}) \cup Permutations(CPUs)
=============================================================================
