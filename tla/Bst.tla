-------------------------------- MODULE Bst ---------------------------------
(***************************************************************************)
(* The search tree of bstree.c.  A tree is a function from places to       *)
(* nodes: a place is the sequence of turns that leads to it from the root, *)
(* <<>>.  The caller's comparison with a key is the function turn: where   *)
(* to turn at each node, or Match.                                         *)
(*                                                                         *)
(* The code has one number for "found" and for "cannot be inserted"        *)
(* (BST_MATCH, BST_ERROR) and a third child, always NULL, to stop there.   *)
(***************************************************************************)
EXTENDS Integers, Sequences

Left == 0
Right == 1
Match == 2
Error == Match

(* bst_node_init *)
Root(node) == [place \in {<<>>} |-> node]

(* The loop of bst_insert and bst_search: turn as the comparison says, as  *)
(* long as there is a child.                                               *)
Descent(tree, turn) ==
  CHOOSE p \in DOMAIN tree :
    /\ \A i \in 1 .. Len(p) : p[i] = turn[tree[SubSeq(p, 1, i - 1)]]
    /\ Append(p, turn[tree[p]]) \notin DOMAIN tree

Insert(tree, new, turn) ==
  LET p    == Descent(tree, turn)
      leaf == Append(p, turn[tree[p]])
  IN  IF turn[tree[p]] = Error THEN tree
      ELSE [q \in DOMAIN tree \cup {leaf} |-> IF q = leaf THEN new ELSE tree[q]]

(* The set of the node that is found, empty for NULL. *)
Search(tree, turn) ==
  {tree[p] : p \in {q \in {Descent(tree, turn)} : turn[tree[q]] = Match}}
=============================================================================
