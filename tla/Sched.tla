------------------------------- MODULE Sched --------------------------------
(***************************************************************************)
(* Processes, the scheduler and msleep of archtecture/x86/p32 (proc.c,     *)
(* sched.c, pit.c), with the processes main.c creates: each of them sleeps *)
(* and yields in turns.  Scheduling is cooperative: sched_timer is not     *)
(* called, the only thing that happens between two steps of whoever has    *)
(* the processor is the timer interrupt, and a process that sleeps keeps   *)
(* the processor.                                                          *)
(*                                                                         *)
(* A process is the number of its slot in proc_table, and the cell of its  *)
(* node in the list of ready processes.  Faulty variants, which nothing    *)
(* uses, stand in front of their definitions: AnySlot, AddReadyInFront,    *)
(* DueAtDeadline.                                                          *)
(***************************************************************************)
EXTENDS Integers, Sequences, Links

CONSTANTS
  PROC_MAX,    \* slots of proc_table
  Ticks,       \* time_ticks counts modulo this: 2^32
  Msec         \* the times processes sleep for

Proc == 0 .. PROC_MAX - 1

Ready == -1     \* the head of the ready list, and
Block == -2     \* of the block list
Kernel == -3    \* who runs main and then the loop of _sched

Cell == Proc \cup {Ready, Block}

ASSUME SchedAssumption ==
  /\ PROC_MAX \in Nat \ {0}
  /\ Ticks \in Nat \ {0}
  /\ Msec \subseteq 0 .. Ticks - 2

VARIABLES
  state,         \* of each process: PROC_FREE, PROC_READY, PROC_RUN, PROC_BLOCK
  links,         \* the fields of all list cells
  readys,        \* scheduler.readys
  proc,          \* scheduler.proc
  cpu,           \* auxiliary: whose context is on the processor
  pc,            \* where the kernel and each process is, or goes on
  time_ticks,
  nap,           \* snap and msec of the msleep that runs
  elapsed        \* auxiliary: the ticks since it began, up to msec + 1

lists == <<links, readys>>
vars  == <<state, links, readys, proc, cpu, pc, time_ticks, nap, elapsed>>

NoNap == [snap |-> 0, msec |-> 0]

(* proc_init *)
FreeSlots == [p \in Proc |-> "PROC_FREE"]

(* Processes and lists as proc_init and sched_init leave them; the fields  *)
(* of a node in no list are not read.                                      *)
Init ==
  /\ state = FreeSlots
  /\ links = LET unset == [c \in Cell |-> c]
             IN  InitHead(InitHead([next |-> unset, prev |-> unset], Ready), Block)
  /\ readys = 0
  /\ proc = Kernel
  /\ cpu = Kernel
  /\ pc = [c \in Proc \cup {Kernel} |-> IF c = Kernel THEN "main" ELSE "loop"]
  /\ time_ticks \in 0 .. Ticks - 1
  /\ nap = NoNap
  /\ elapsed = 0

(* _sched_add_ready *)
AddReadyInFront(p) ==
  /\ links' = AddHead(links, Ready, p)
  /\ readys' = readys + 1
AddReady(p) ==
  /\ links' = Add(links, Ready, p)
  /\ readys' = readys + 1


-----------------------------------------------------------------------------
(* The first slot that is free. *)
AnySlot(p) == p = 0
FirstFree(p) ==
  /\ state[p] = "PROC_FREE"
  /\ \A q \in 0 .. p - 1 : state[q] # "PROC_FREE"

(* proc_create, called by main or by a process. *)
Create(p) ==
  /\ pc[cpu] \in {"main", "loop"}
  /\ FirstFree(p)
  /\ state' = [state EXCEPT ![p] = "PROC_READY"]
  /\ AddReady(p)
  /\ UNCHANGED <<proc, cpu, pc, time_ticks, nap, elapsed>>

(* main calls sched. *)
StartSched ==
  /\ pc[cpu] = "main"
  /\ pc' = [pc EXCEPT ![Kernel] = "sched"]
  /\ UNCHANGED <<state, lists, proc, cpu, time_ticks, nap, elapsed>>

(* A round of the loop of _sched, up to context_switch.  It returns, and   *)
(* the kernel hangs in main, if the list is empty.                         *)
Dispatch ==
  /\ pc[cpu] = "sched"
  /\ readys # 0
  /\ IF IsEmpty(links, Ready)
     THEN /\ pc' = [pc EXCEPT ![Kernel] = "hang"]
          /\ UNCHANGED <<state, lists, proc, cpu>>
     ELSE LET new == links.next[Ready] IN
          /\ links' = Get(links, Ready)
          /\ readys' = readys - 1
          /\ state' = [state EXCEPT ![new] = "PROC_RUN"]
          /\ proc' = new
          /\ cpu' = new
          /\ UNCHANGED pc
  /\ UNCHANGED <<time_ticks, nap, elapsed>>

(* msleep *)
Msleep(m) ==
  /\ cpu # Kernel
  /\ pc[cpu] = "loop"
  /\ IF m <= 0
     THEN /\ pc' = [pc EXCEPT ![cpu] = "awake"]
          /\ UNCHANGED nap
     ELSE /\ pc' = [pc EXCEPT ![cpu] = "asleep"]
          /\ nap' = [snap |-> time_ticks, msec |-> m]
  /\ elapsed' = 0
  /\ UNCHANGED <<state, lists, proc, cpu, time_ticks>>

(* The loop of msleep ends; the difference is that of uint32_t. *)
DueAtDeadline == time_ticks > (nap.snap + nap.msec) % Ticks
Due == (time_ticks - nap.snap) % Ticks > nap.msec

Wake ==
  /\ pc[cpu] = "asleep"
  /\ Due
  /\ pc' = [pc EXCEPT ![cpu] = "awake"]
  /\ nap' = NoNap
  /\ UNCHANGED <<state, lists, proc, cpu, time_ticks, elapsed>>

(* sched_yield: scheduler.proc goes to the end of the list, and the        *)
(* context of the scheduler's loop is restored.                            *)
Yield ==
  /\ pc[cpu] = "awake"
  /\ state' = [state EXCEPT ![proc] = "PROC_READY"]
  /\ AddReady(proc)
  /\ cpu' = Kernel
  /\ pc' = [pc EXCEPT ![cpu] = "loop"]
  /\ elapsed' = 0
  /\ UNCHANGED <<proc, time_ticks, nap>>

(* isr_system_timer_handler; what it does every second is commented out. *)
Tick ==
  /\ time_ticks' = (time_ticks + 1) % Ticks
  /\ elapsed' = IF pc[cpu] = "asleep" /\ elapsed <= nap.msec
                THEN elapsed + 1 ELSE elapsed
  /\ UNCHANGED <<state, lists, proc, cpu, pc, nap>>

Next ==
  \/ \E p \in Proc : Create(p)
  \/ StartSched \/ Dispatch
  \/ \E m \in Msec : Msleep(m)
  \/ Wake \/ Yield
  \/ Tick

(* The timer ticks, and code that can go on does.  msleep looks at the     *)
(* time many times between two ticks, so it does not miss all of the       *)
(* Ticks - msec - 1 ticks for which its condition holds each time the      *)
(* counter goes round: SF.                                                 *)
Fairness ==
  /\ WF_vars(Tick)
  /\ WF_vars(StartSched) /\ WF_vars(Dispatch)
  /\ WF_vars(\E m \in Msec : Msleep(m)) /\ WF_vars(Yield)
  /\ SF_vars(Wake)

Spec == Init /\ [][Next]_vars /\ Fairness

-----------------------------------------------------------------------------
(* Properties *)

Types ==
  /\ state \in [Proc -> {"PROC_FREE", "PROC_READY", "PROC_RUN", "PROC_BLOCK"}]
  /\ links \in [next : [Cell -> Cell], prev : [Cell -> Cell]]
  /\ readys \in 0 .. PROC_MAX
  /\ {proc, cpu} \subseteq Proc \cup {Kernel}
  /\ pc[Kernel] \in {"main", "sched", "hang"}
  /\ \A p \in Proc : pc[p] \in {"loop", "asleep", "awake"}
  /\ time_ticks \in 0 .. Ticks - 1
  /\ nap \in [snap : 0 .. Ticks - 1, msec : Msec \cup {0}]
  /\ elapsed \in 0 .. Ticks

(* The processes list_get gives, in their order. *)
Queue == Walk(links, Ready, PROC_MAX + 1)

(* The list of ready processes, the count in scheduler.readys and the      *)
(* states agree: the loop never hangs with processes ready, no process is  *)
(* in the list twice, and the one that runs is not in it (_sched,          *)
(* proc_create, sched_yield).                                              *)
ReadyExact ==
  /\ Types
  /\ readys = Len(Queue)
  /\ \A i, j \in DOMAIN Queue : Queue[i] = Queue[j] => i = j
  /\ \A p \in Proc :
       /\ state[p] = "PROC_READY" <=> \E i \in DOMAIN Queue : Queue[i] = p
       /\ state[p] = "PROC_RUN" <=> cpu = p

(* msleep(msec) returns after more than msec ticks, also when time_ticks   *)
(* goes round in the meantime (msleep).                                    *)
SleepsLongEnough ==
  [][\A p \in Proc :
       pc[p] = "asleep" /\ pc'[p] = "awake" => elapsed > nap.msec]_vars

(* Every process that was created runs again and again (_sched,            *)
(* sched_yield).                                                           *)
EveryoneRuns == \A p \in Proc : state[p] = "PROC_READY" ~> cpu = p

(* Processes take turns. *)
Turns == INSTANCE RoundRobin WITH queue <- Queue, on <- cpu, None <- Kernel
ImplementsRoundRobin == Turns!Spec
=============================================================================
