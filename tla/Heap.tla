-------------------------------- MODULE Heap --------------------------------
(***************************************************************************)
(* What a block allocator promises its callers, whatever its bookkeeping:  *)
(* a block it hands out is one of the candidates for the request, shares   *)
(* no unit with a block somebody still holds, and a request is refused     *)
(* only when every candidate for it does share one.  mm/buddy.c is shown   *)
(* to implement this in module Buddy.                                      *)
(***************************************************************************)
CONSTANTS
  Unit,        \* the allocation units of the heap
  Request,     \* the requests a caller may make
  Candidate    \* in [Request -> SUBSET SUBSET Unit]: the blocks that would
               \* serve each request, as sets of units

VARIABLES
  owned,       \* the blocks handed out and not yet returned
  asked,       \* the request the last call made, {} if it returned a block
  res          \* the block the last call handed out, {} if it handed out none

vars == <<owned, asked, res>>

Free(c) == \A o \in owned : o \cap c = {}

Init ==
  /\ owned = {}
  /\ asked = {}
  /\ res = {}

Grant(r) ==
  \E c \in Candidate[r] :
    /\ Free(c)
    /\ owned' = owned \cup {c}
    /\ asked' = {r}
    /\ res' = c

Refuse(r) ==
  /\ \A c \in Candidate[r] : ~ Free(c)
  /\ asked' = {r}
  /\ res' = {}
  /\ UNCHANGED owned

Return(o) ==
  /\ owned' = owned \ {o}
  /\ asked' = {}
  /\ res' = {}

Next ==
  \/ \E r \in Request : Grant(r) \/ Refuse(r)
  \/ \E o \in owned : Return(o)

Spec == Init /\ [][Next]_vars
=============================================================================
