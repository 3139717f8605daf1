----------------------------- MODULE MCBlockMap -----------------------------
(* "One": one file, one direct block and index blocks of two entries, so    *)
(* that a file has up to seven blocks in eleven.  "Two": two processes that *)
(* fill and truncate two files on a disk that holds one of full size, with  *)
(* index blocks of one entry.                                               *)
EXTENDS BlockMap, TLC

Interchangeable == Permutations(Procs)
=============================================================================
