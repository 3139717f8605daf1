------------------------------ MODULE MCPstree ------------------------------
(* Three tasks at the start and one more id; one of the two names has a      *)
(* space in it; the options are the default and those that change what is    *)
(* read or in which order it is printed.                                     *)
EXTENDS Pstree

Options == {{}, {"c", "n"}, {"a", "c", "T"}, {"t"}}
Default == {{}}
=============================================================================
