-------------------------------- MODULE List --------------------------------
(***************************************************************************)
(* One list of list.c and the calls its users make of it: a node is added  *)
(* only when it is in no list, and removed only when it is in this one.    *)
(* That is their contract; the code does not check it.                     *)
(*                                                                         *)
(* The names begin with List, so that what is proved of lists can be used  *)
(* in a module about a program that keeps some.                            *)
(***************************************************************************)
EXTENDS Naturals, Sequences, FiniteSets, Links

CONSTANTS
  Node,      \* the nodes
  Head_,     \* the list's head
  NULL

ListCell == Node \cup {Head_}

ASSUME ListAssumption ==
  /\ IsFiniteSet(Node)
  /\ Head_ \notin Node
  /\ NULL \notin ListCell

VARIABLES
  fields,   \* the next and prev fields of all cells
  queue,    \* auxiliary: the nodes added and not removed, in their order
  got       \* what the last list_get returned

listVars == <<fields, queue, got>>

InList(n) == \E i \in DOMAIN queue : queue[i] = n
Position(n) == CHOOSE i \in DOMAIN queue : queue[i] = n
Without(n)  == SubSeq(queue, 1, Position(n) - 1)
                 \o SubSeq(queue, Position(n) + 1, Len(queue))

(* list_init_head; the fields of nodes in no list are never read. *)
ListInit ==
  /\ fields = InitHead([next |-> [c \in ListCell |-> NULL],
                        prev |-> [c \in ListCell |-> NULL]], Head_)
  /\ queue = <<>>
  /\ got = NULL

(* list_add *)
ListAdd(n) ==
  /\ ~ InList(n)
  /\ fields' = Add(fields, Head_, n)
  /\ queue' = Append(queue, n)
  /\ UNCHANGED got

(* list_add_head *)
ListAddHead(n) ==
  /\ ~ InList(n)
  /\ fields' = AddHead(fields, Head_, n)
  /\ queue' = <<n>> \o queue
  /\ UNCHANGED got

(* list_del *)
ListDel(n) ==
  /\ InList(n)
  /\ fields' = IF IsEmpty(fields, Head_) THEN fields ELSE Del(fields, n)
  /\ queue' = Without(n)
  /\ UNCHANGED got

(* list_get *)
ListGet ==
  IF IsEmpty(fields, Head_)
  THEN /\ got' = NULL
       /\ UNCHANGED <<fields, queue>>
  ELSE /\ got' = fields.next[Head_]
       /\ fields' = Get(fields, Head_)
       /\ queue' = Tail(queue)

ListNext ==
  \/ \E n \in Node : ListAdd(n) \/ ListAddHead(n) \/ ListDel(n)
  \/ ListGet

ListSpec == ListInit /\ [][ListNext]_listVars

-----------------------------------------------------------------------------
(* Properties *)

ListTypes ==
  /\ fields \in [next : [ListCell -> ListCell \cup {NULL}],
                prev : [ListCell -> ListCell \cup {NULL}]]
  /\ queue \in Seq(Node)
  /\ got \in Node \cup {NULL}

(* The i-th cell on the way round the list, the head being the 0-th and    *)
(* the last.                                                               *)
Around(i) == IF i \in DOMAIN queue THEN queue[i] ELSE Head_

(* The links of the list lead from each cell to the one after it and back, *)
(* and no node is in it twice: whatever was added and removed, in whatever *)
(* order, list_for_each meets every node once and stops (list_add,         *)
(* list_del, list_get).                                                    *)
Linked ==
  /\ ListTypes
  /\ \A i \in 0 .. Len(queue) :
       /\ fields.next[Around(i)] = Around(i + 1)
       /\ fields.prev[Around(i + 1)] = Around(i)
  /\ \A i, j \in DOMAIN queue : queue[i] = queue[j] => i = j

Visited == Walk(fields, Head_, Cardinality(Node) + 1)

(* "This function returns a first list_node with deleteing it" (list_get), *)
(* and the others do what their names say: the list that list_for_each     *)
(* visits behaves as a deque.                                              *)
TheDeque == INSTANCE Deque WITH queue <- Visited
ImplementsDeque == TheDeque!Spec
=============================================================================
