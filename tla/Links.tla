------------------------------- MODULE Links --------------------------------
(***************************************************************************)
(* The circular doubly linked lists of list.c, as operators on the links   *)
(* of all cells.  A cell is a list head or a node; links are a record of   *)
(* the next and the prev fields of every cell.  Each operator makes the    *)
(* assignments of its function in their order.                             *)
(*                                                                         *)
(* This is archtecture/x86/p32/list.c, which the kernel is built from;     *)
(* list.c at the root differs in list_get (see there).                     *)
(*                                                                         *)
(* AddWithoutBackLink, DelForward and GetAsInRoot are faulty variants that *)
(* no specification uses: the properties are checked to tell them from the *)
(* definitions that follow them.                                           *)
(***************************************************************************)
EXTENDS Naturals

(* list_init_head *)
InitHead(l, h) ==
  [next |-> [l.next EXCEPT ![h] = h],
   prev |-> [l.prev EXCEPT ![h] = h]]

IsEmpty(l, h) == l.prev[h] = h /\ l.next[h] = h

(* list_add: n becomes the last node. *)
AddWithoutBackLink(l, h, n) ==
  LET last == l.prev[h] IN
  [next |-> [l.next EXCEPT ![n] = h, ![last] = n],
   prev |-> [l.prev EXCEPT ![n] = last]]
Add(l, h, n) ==
  LET last == l.prev[h] IN
  [next |-> [l.next EXCEPT ![n] = h, ![last] = n],
   prev |-> [l.prev EXCEPT ![n] = last, ![h] = n]]

(* list_add_head: n becomes the first node. *)
AddHead(l, h, n) ==
  LET first == l.next[h] IN
  [next |-> [l.next EXCEPT ![n] = first, ![h] = n],
   prev |-> [l.prev EXCEPT ![n] = h, ![first] = n]]

(* list_del, of a list that is not empty. *)
DelForward(l, n) ==
  [next |-> [l.next EXCEPT ![l.prev[n]] = l.next[n]],
   prev |-> l.prev]
Del(l, n) ==
  [next |-> [l.next EXCEPT ![l.prev[n]] = l.next[n]],
   prev |-> [l.prev EXCEPT ![l.next[n]] = l.prev[n]]]

(* list_get, of a list that is not empty: the node after the first gets    *)
(* the head as its prev.  In list.c at the root it is the node after that. *)
GetAsInRoot(l, h) ==
  LET second == l.next[l.next[h]]
      next   == [l.next EXCEPT ![h] = second]
  IN  [next |-> next, prev |-> [l.prev EXCEPT ![next[second]] = h]]
Get(l, h) ==
  LET second == l.next[l.next[h]] IN
  [next |-> [l.next EXCEPT ![h] = second],
   prev |-> [l.prev EXCEPT ![second] = h]]

(* What list_for_each visits: the cells behind the head up to the head, or *)
(* as many as most when the head is not reached.                           *)
Walk(l, h, most) ==
  LET cell[i \in 0 .. most] == IF i = 0 THEN h ELSE l.next[cell[i-1]]
      back == {i \in 1 .. most : cell[i] = h}
      n    == IF back = {} THEN most + 1
              ELSE CHOOSE i \in back : \A j \in back : i <= j
  IN  [i \in 1 .. n - 1 |-> cell[i]]
=============================================================================
