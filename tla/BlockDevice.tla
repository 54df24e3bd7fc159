---------------------------- MODULE BlockDevice -----------------------------
(* What callers of a disk driver rely on: a request moves all its sectors  *)
(* between the disk and the caller's buffer and nothing else changes.      *)
(* After a first failure a request may leave anything in the sectors it    *)
(* names, but still touches no other.                                      *)
EXTENDS Integers

CONSTANTS
  Request,    \* requests: records of write, lba, count and buf
  Sector      \* what a sector may hold

VARIABLES
  disk, mem,    \* the sectors of the disk and of memory
  broken        \* a command failed

Init ==
  /\ disk \in [DOMAIN disk -> Sector]
  /\ mem \in [DOMAIN mem -> Sector]
  /\ ~ broken

(* The sectors of memory or of the disk that a request names. *)
Named(r, first) == first .. first + r.count - 1

Read(r) ==
  /\ ~ r.write
  /\ mem' = [n \in DOMAIN mem |->
               IF n \in Named(r, r.buf) THEN disk[r.lba + n - r.buf] ELSE mem[n]]
  /\ UNCHANGED <<disk, broken>>

Write(r) ==
  /\ r.write
  /\ disk' = [n \in DOMAIN disk |->
                IF n \in Named(r, r.lba) THEN mem[r.buf + n - r.lba] ELSE disk[n]]
  /\ UNCHANGED <<mem, broken>>

Break == ~ broken /\ broken' /\ UNCHANGED <<disk, mem>>

Spoil(r) ==
  /\ broken /\ broken'
  /\ \A n \in DOMAIN mem :
       (~ r.write /\ n \in Named(r, r.buf)) \/ mem'[n] = mem[n]
  /\ \A n \in DOMAIN disk :
       (r.write /\ n \in Named(r, r.lba)) \/ disk'[n] = disk[n]

Next == Break \/ \E r \in Request : Read(r) \/ Write(r) \/ Spoil(r)

Spec == Init /\ [][Next]_<<disk, mem, broken>>
=============================================================================
