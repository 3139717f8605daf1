------------------------------- MODULE MCMmap -------------------------------
(* Small instances of Mmap: the slots of ftable are interchangeable.        *)
EXTENDS Mmap, TLC

Interchangeable == Permutations(Files)
=============================================================================
