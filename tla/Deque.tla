------------------------------- MODULE Deque --------------------------------
(* What list.c promises: a sequence of nodes, to which nodes are added at  *)
(* both ends, from which any node can be removed, and whose first node     *)
(* list_get takes.                                                         *)
EXTENDS Sequences, Naturals

CONSTANTS Node, NULL

VARIABLES
  queue,    \* the nodes in the list
  got       \* what the last list_get returned

Position(n) == CHOOSE i \in DOMAIN queue : queue[i] = n

In(n) == \E i \in DOMAIN queue : queue[i] = n

Init == queue = <<>> /\ got = NULL

PutLast(n) ==
  /\ ~ In(n)
  /\ queue' = Append(queue, n)
  /\ UNCHANGED got

PutFirst(n) ==
  /\ ~ In(n)
  /\ queue' = <<n>> \o queue
  /\ UNCHANGED got

Remove(n) ==
  /\ In(n)
  /\ queue' = SubSeq(queue, 1, Position(n) - 1)
                \o SubSeq(queue, Position(n) + 1, Len(queue))
  /\ UNCHANGED got

Take ==
  IF queue = <<>>
  THEN got' = NULL /\ UNCHANGED queue
  ELSE got' = Head(queue) /\ queue' = Tail(queue)

Next ==
  \/ \E n \in Node : PutLast(n) \/ PutFirst(n) \/ Remove(n)
  \/ Take

Spec == Init /\ [][Next]_<<queue, got>>
=============================================================================
