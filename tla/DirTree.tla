------------------------------- MODULE DirTree -------------------------------
(***************************************************************************)
(* What mkdir, mknod and unlink promise: each is one step on a tree of     *)
(* names.  The tree maps its nodes to what they are and what they name.    *)
(* Once somebody follows a ".." that was freed the track is lost, and      *)
(* nothing is promised any more.  Dirs implements this specification.      *)
(***************************************************************************)
CONSTANTS Nodes, Root, Names, NoNode

VARIABLES tree, lost

vars == <<tree, lost>>

Leaf(k) == [kind |-> k, entry |-> [n \in Names |-> NoNode]]

Init ==
    /\ tree = [i \in {Root} |-> Leaf("T_DIR")]
    /\ ~lost

\* The tree with n in the directory d changed to i.
Naming(d, n, i) == [tree EXCEPT ![d].entry[n] = i]

\* A directory gets a new leaf.
Make(d, n, i, k) ==
    /\ tree[d].kind = "T_DIR" /\ tree[d].entry[n] = NoNode
    /\ tree' = [j \in DOMAIN tree \cup {i} |-> IF j = i THEN Leaf(k) ELSE Naming(d, n, i)[j]]
    /\ UNCHANGED lost

\* A leaf goes, and nothing but the leaf.
Remove(d, n, i) ==
    /\ tree[d].entry[n] = i /\ tree[i] = Leaf(tree[i].kind)
    /\ tree' = [j \in DOMAIN tree \ {i} |-> Naming(d, n, NoNode)[j]]
    /\ UNCHANGED lost

Next ==
    \/ /\ ~lost
       /\ \E d \in DOMAIN tree, n \in Names :
             \/ \E i \in Nodes \ DOMAIN tree, k \in {"T_DIR", "T_DEVICE"} : Make(d, n, i, k)
             \/ \E i \in DOMAIN tree : Remove(d, n, i)
    \/ lost'

Spec == Init /\ [][Next]_vars
=============================================================================
