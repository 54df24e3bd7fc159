----------------------------- MODULE RoundRobin -----------------------------
(* What a cooperative scheduler promises: processes get the processor in   *)
(* the order in which they asked for it, one at a time.                    *)
EXTENDS Sequences

CONSTANTS Proc, None

VARIABLES
  queue,    \* the processes that wait
  on        \* the one that has the processor

Waiting == {queue[i] : i \in DOMAIN queue}

Init ==
  /\ queue = <<>>
  /\ on = None

(* A new process waits behind the others. *)
Join(p) ==
  /\ p \notin Waiting \cup {on}
  /\ queue' = Append(queue, p)
  /\ UNCHANGED on

Take ==
  /\ on = None
  /\ queue # <<>>
  /\ on' = Head(queue)
  /\ queue' = Tail(queue)

Yield ==
  /\ on # None
  /\ queue' = Append(queue, on)
  /\ on' = None

Next == Take \/ Yield \/ \E p \in Proc : Join(p)

Spec == Init /\ [][Next]_<<queue, on>>
=============================================================================
