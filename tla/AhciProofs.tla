----------------------------- MODULE AhciProofs -----------------------------
(***************************************************************************)
(* Theorems about Ahci for any number of command slots, any machines,      *)
(* requests, memory and disk, and any number of calls and faults.          *)
(***************************************************************************)
EXTENDS Ahci, TLAPS, WellFoundedInduction

USE AhciAssumption, RequestAssumption

-----------------------------------------------------------------------------
(* The inductive invariant *)

(* TypeOK, and the types it leaves out. *)
Memories ==
  /\ tbl \in [Slot -> {NONE} \cup {Table(r) : r \in Requests}]
  /\ mem \in [Memory -> Sector] /\ disk \in [Disk -> Sector]
  /\ old.mem \in [Memory -> Sector] /\ old.disk \in [Disk -> Sector]

Flags ==
  /\ st \in BOOLEAN /\ fre \in BOOLEAN /\ cr \in BOOLEAN /\ fr \in BOOLEAN
  /\ tfes \in BOOLEAN /\ busy \in BOOLEAN /\ based \in BOOLEAN /\ halted \in BOOLEAN

Registers ==
  /\ machine \in Machine
  /\ portno \in 0 .. Len(machine.ports) /\ active \in 0 .. portno
  /\ ci \subseteq Slot
  /\ req \in Requests
  /\ slot \in Slot \cup {-1}
  /\ ret \in {0, EBUSY}
  /\ moved \in Nat /\ faults \in Nat
  /\ pc \in {"probe", "nodev", "scan", "stop", "rebase", "start", "clear", "find",
             "fill", "wait", "poll", "idle"}

(* A port is at rest until its lists are moved, and runs from then on.  A  *)
(* port that no drive is found at is never started.                        *)
AtRest ==
  /\ ~ based => cmd = NONE /\ ~ tfes /\ ~ halted
  /\ ~ based /\ pc \notin {"stop", "rebase"} => ~ st /\ ~ fre /\ ~ cr /\ ~ fr
  /\ pc \in {"stop", "rebase"} => ~ based /\ ci = {} /\ ~ Scanned
  /\ pc = "start" => based /\ ci = {} /\ ~ Scanned
  /\ based /\ pc # "start" => st
  /\ pc = "idle" => Scanned
  /\ ~ Scanned \/ pc \in {"probe", "scan"} => req = FirstRead

(* The controller executes the command the driver waits for and no other;  *)
(* a command that failed keeps its slot, and then nothing is executed.     *)
OneCommand ==
  /\ cmd # NONE => /\ pc = "poll"
                   /\ cmd = [slot |-> slot, table |-> tbl[slot]]
                   /\ slot \in ci
                   /\ ~ tfes /\ ~ halted
                   /\ moved <= tbl[slot].count
  /\ pc # "poll" /\ ci # {} => halted
  /\ pc = "poll" /\ ~ halted => ci \subseteq {slot}
  /\ pc \in {"find", "fill", "wait", "poll"} /\ tfes => halted
  /\ halted => faults > 0
  /\ pc \in {"fill", "wait"} => slot \in Slot \ ci
  /\ pc = "poll" => slot \in Slot
  /\ pc \in {"wait", "poll"} => tbl[slot] = Table(req)

IInv == Memories /\ Flags /\ Registers /\ AtRest /\ OneCommand

-----------------------------------------------------------------------------
(* Tables *)

(* Quotient and remainder. *)
LEMMA DivMod ==
  ASSUME NEW a \in Nat, NEW c \in Nat \ {0}
  PROVE  /\ a \div c \in Nat
         /\ a % c \in 0 .. c - 1
         /\ a = c * (a \div c) + (a % c)
  OBVIOUS

LEMMA DivBelow ==
  ASSUME NEW a \in Nat, NEW c \in Nat \ {0}, a < c
  PROVE  a \div c = 0 /\ a % c = a
<1> DEFINE q == a \div c
           r == a % c
<1>1. q \in Nat /\ r \in 0 .. c - 1 /\ a = c * q + r
  BY DivMod
<1> HIDE DEF q, r
<1>2. q # 0 => c <= c * q
  BY <1>1
<1>3. q = 0 /\ r = a
  BY <1>1, <1>2
<1> QED
  BY <1>3 DEF q, r

(* The table of a request describes at most one region entry of sectors,   *)
(* in the buffer and on the disk where the request has them.               *)
LEMMA TableIs ==
  ASSUME NEW r \in Requests
  PROVE  LET t == Table(r) IN
         /\ t.write = r.write /\ t.lba = r.lba
         /\ t.count \in 1 .. PerEntry
         /\ t.count <= r.count
         /\ r.count <= PerEntry => t.count = r.count
         /\ \A k \in 0 .. t.count - 1 :
              /\ Place(t, k) = r.buf + k
              /\ Place(t, k) \in Memory /\ t.lba + k \in Disk
<1> DEFINE p == PerEntry
           d == (r.count - 1) \div p
           m == (r.count - 1) % p
           t == Table(r)
<1>1. r.count \in Nat \ {0} /\ r.buf \in Nat /\ r.lba \in Nat /\ p \in Nat \ {0}
      /\ Advance \in Nat
  BY RequestAssumption, AhciAssumption
<1>2. d \in Nat /\ m \in 0 .. p - 1 /\ r.count - 1 = p * d + m
  <2>1. r.count - 1 \in Nat
    BY <1>1
  <2> QED
    BY <2>1, <1>1, DivMod
<1>3. /\ t.write = r.write /\ t.lba = r.lba
      /\ t.count = r.count - ((d + 1) - 1) * p
      /\ t.prdt = [i \in 0 .. (d + 1) - 1 |-> r.buf + i * Advance]
  BY DEF Table, Entries
<1> HIDE DEF d, m, t, p
<1>4. ((d + 1) - 1) * p = p * d /\ p * d \in Nat
  BY <1>1, <1>2
<1>5. t.count = m + 1
  BY <1>1, <1>2, <1>3, <1>4
<1>6. r.count <= p => d = 0
  <2> SUFFICES ASSUME r.count <= p, d # 0 PROVE FALSE
    OBVIOUS
  <2>1. p <= p * d
    BY <1>1, <1>2
  <2> QED
    BY <2>1, <1>1, <1>2
<1>7. t.count \in 1 .. p /\ t.count <= r.count
  BY <1>1, <1>2, <1>4, <1>5
<1>8. r.count <= p => t.count = r.count
  BY <1>1, <1>2, <1>5, <1>6
<1>9. t.prdt[0] = r.buf
  <2>1. 0 \in 0 .. (d + 1) - 1 /\ 0 * Advance = 0
    BY <1>1, <1>2
  <2> QED
    BY <2>1, <1>1, <1>3
<1>10. ASSUME NEW k \in 0 .. t.count - 1
       PROVE  /\ Place(t, k) = r.buf + k
              /\ Place(t, k) \in Memory /\ t.lba + k \in Disk
  <2>1. k \in Nat /\ k < p /\ k < r.count
    BY <1>1, <1>7
  <2>2. k \div p = 0 /\ k % p = k
    BY <1>1, <2>1, DivBelow
  <2>3. Place(t, k) = r.buf + k
    BY <2>2, <1>9 DEF Place, p
  <2>4. r.buf + k \in r.buf .. r.buf + r.count - 1
        /\ r.lba + k \in r.lba .. r.lba + r.count - 1
    BY <1>1, <2>1
  <2> QED
    BY <2>3, <2>4, <1>3, RequestAssumption
<1> QED
  BY <1>3, <1>7, <1>8, <1>10 DEF t, p

(* The table in a slot, if there is one. *)
LEMMA TableAt ==
  ASSUME Memories, NEW s \in Slot
  PROVE  tbl[s] = NONE \/ \E r \in Requests : tbl[s] = Table(r)
  BY DEF Memories

-----------------------------------------------------------------------------
(* The steps of the driver and of the controller *)

LEMMA InitInv ==
  ASSUME Init
  PROVE  IInv
<1>1. Registers
  BY DEF Init, Registers, Requests
<1>3. Memories
  BY DEF Init, Memories, Sector
<1>4. Flags
  BY DEF Init, Flags
<1>2. AtRest /\ OneCommand
  BY DEF Init, AtRest, OneCommand, Scanned
<1> QED
  BY <1>1, <1>2, <1>3, <1>4 DEF IInv

LEMMA FindDeviceInv ==
  ASSUME IInv, FindDevice
  PROVE  IInv'
<1>1. Registers'
  BY DEF IInv, Registers, FindDevice, here, port, spot, device, driver
<1>5. Flags'
  BY DEF IInv, Flags, FindDevice, here, port, spot, device, driver
<1>4. Memories'
  BY DEF IInv, Memories, FindDevice, here, port, spot, device, driver
<1>2. AtRest'
  BY DEF IInv, Flags, Registers, AtRest, OneCommand, FindDevice, Scanned, here, port, spot, device, driver
<1>3. OneCommand'
  BY DEF IInv, Flags, Registers, AtRest, OneCommand, FindDevice, Scanned, here, port, spot, device, driver
<1> QED
  BY <1>1, <1>2, <1>3, <1>4, <1>5 DEF IInv

LEMMA EnterInv ==
  ASSUME IInv, Enter
  PROVE  IInv'
<1>1. Registers'
  BY DEF IInv, Registers, Enter, here, port, spot, device, driver, Type, PortHere, Scanned
<1>5. Flags'
  BY DEF IInv, Flags, Enter, here, port, spot, device, driver, Type, PortHere, Scanned
<1>4. Memories'
  BY DEF IInv, Memories, Enter, here, port, spot, device, driver, Type, PortHere, Scanned
<1>2. AtRest'
  BY DEF IInv, Flags, Registers, AtRest, OneCommand, Enter, Scanned, here, port, spot, device, driver, Type, PortHere
<1>3. OneCommand'
  BY DEF IInv, Flags, Registers, AtRest, OneCommand, Enter, Scanned, here, port, spot, device, driver, Type, PortHere
<1> QED
  BY <1>1, <1>2, <1>3, <1>4, <1>5 DEF IInv

LEMMA PassInv ==
  ASSUME IInv, Pass
  PROVE  IInv'
<1>1. Registers'
  BY DEF IInv, Registers, Pass, here, port, spot, device, driver, Type, PortHere, Scanned
<1>5. Flags'
  BY DEF IInv, Flags, Pass, here, port, spot, device, driver, Type, PortHere, Scanned
<1>4. Memories'
  BY DEF IInv, Memories, Pass, here, port, spot, device, driver, Type, PortHere, Scanned
<1>2. AtRest'
  BY DEF IInv, Flags, Registers, AtRest, OneCommand, Pass, Scanned, here, port, spot, device, driver, Type, PortHere
<1>3. OneCommand'
  BY DEF IInv, Flags, Registers, AtRest, OneCommand, Pass, Scanned, here, port, spot, device, driver, Type, PortHere
<1> QED
  BY <1>1, <1>2, <1>3, <1>4, <1>5 DEF IInv

LEMMA StopCmdInv ==
  ASSUME IInv, StopCmd
  PROVE  IInv'
<1>1. Registers'
  BY DEF IInv, Registers, StopCmd, here, port, spot, device, driver
<1>5. Flags'
  BY DEF IInv, Flags, StopCmd, here, port, spot, device, driver
<1>4. Memories'
  BY DEF IInv, Memories, StopCmd, here, port, spot, device, driver
<1>2. AtRest'
  BY DEF IInv, Flags, Registers, AtRest, OneCommand, StopCmd, Scanned, here, port, spot, device, driver
<1>3. OneCommand'
  BY DEF IInv, Flags, Registers, AtRest, OneCommand, StopCmd, Scanned, here, port, spot, device, driver
<1> QED
  BY <1>1, <1>2, <1>3, <1>4, <1>5 DEF IInv

LEMMA RebaseInv ==
  ASSUME IInv, Rebase
  PROVE  IInv'
<1>1. Registers'
  BY DEF IInv, Registers, Rebase, here, port, spot, device, driver, Stopped, Scanned
<1>5. Flags'
  BY DEF IInv, Flags, Rebase, here, port, spot, device, driver, Stopped, Scanned
<1>4. Memories'
  BY DEF IInv, Memories, Rebase, here, port, spot, device, driver, Stopped, Scanned
<1>2. AtRest'
  BY DEF IInv, Flags, Registers, AtRest, OneCommand, Rebase, Scanned, here, port, spot, device, driver, Stopped
<1>3. OneCommand'
  BY DEF IInv, Flags, Registers, AtRest, OneCommand, Rebase, Scanned, here, port, spot, device, driver, Stopped
<1> QED
  BY <1>1, <1>2, <1>3, <1>4, <1>5 DEF IInv

LEMMA StartCmdInv ==
  ASSUME IInv, StartCmd
  PROVE  IInv'
<1>1. Registers'
  BY DEF IInv, Registers, StartCmd, here, port, spot, device, driver, Scanned
<1>5. Flags'
  BY DEF IInv, Flags, StartCmd, here, port, spot, device, driver, Scanned
<1>4. Memories'
  BY DEF IInv, Memories, StartCmd, here, port, spot, device, driver, Scanned
<1>2. AtRest'
  BY DEF IInv, Flags, Registers, AtRest, OneCommand, StartCmd, Scanned, here, port, spot, device, driver
<1>3. OneCommand'
  BY DEF IInv, Flags, Registers, AtRest, OneCommand, StartCmd, Scanned, here, port, spot, device, driver
<1> QED
  BY <1>1, <1>2, <1>3, <1>4, <1>5 DEF IInv

LEMMA ClearInterruptsInv ==
  ASSUME IInv, ClearInterrupts
  PROVE  IInv'
<1>1. Registers'
  BY DEF IInv, Registers, ClearInterrupts, here, port, spot, device, driver
<1>5. Flags'
  BY DEF IInv, Flags, ClearInterrupts, here, port, spot, device, driver
<1>4. Memories'
  BY DEF IInv, Memories, ClearInterrupts, here, port, spot, device, driver
<1>2. AtRest'
  BY DEF IInv, Flags, Registers, AtRest, OneCommand, ClearInterrupts, Scanned, here, port, spot, device, driver
<1>3. OneCommand'
  BY DEF IInv, Flags, Registers, AtRest, OneCommand, ClearInterrupts, Scanned, here, port, spot, device, driver
<1> QED
  BY <1>1, <1>2, <1>3, <1>4, <1>5 DEF IInv

LEMMA FindSlotInv ==
  ASSUME IInv, FindSlot
  PROVE  IInv'
<1>1. CASE Usable = {}
  <2>1. /\ pc = "find" /\ Return(EBUSY)
        /\ UNCHANGED <<slot, spot, ci, tfes, busy, based, tbl, mem, disk, device, req,
                       calls, faults, old>>
    BY <1>1 DEF FindSlot
  <2>2. Registers'
    BY <2>1 DEF IInv, Registers, Return, Scanned, spot, device
  <2>3. Flags' /\ Memories'
    BY <2>1 DEF IInv, Flags, Memories, spot, device
  <2>4. AtRest'
    BY <2>1 DEF IInv, Registers, AtRest, Return, Scanned, spot, device
  <2>5. OneCommand'
    BY <2>1 DEF IInv, OneCommand, Return, spot, device
  <2> QED
    BY <2>2, <2>3, <2>4, <2>5 DEF IInv
<1>2. CASE Usable # {}
  <2>1. /\ pc = "find" /\ pc' = "fill" /\ slot' \in Slot \ ci
        /\ UNCHANGED <<ret, portno, spot, ci, tfes, busy, based, tbl, mem, disk, device,
                       req, calls, faults, old>>
    <3>1. Usable \subseteq Slot \ ci
      BY DEF Usable, Slot
    <3> QED
      BY <3>1, <1>2 DEF FindSlot
  <2>2. Registers'
    BY <2>1 DEF IInv, Registers, spot, device
  <2>3. Flags' /\ Memories'
    BY <2>1 DEF IInv, Flags, Memories, spot, device
  <2>4. AtRest'
    BY <2>1 DEF IInv, AtRest, Scanned, spot, device
  <2>5. OneCommand'
    BY <2>1 DEF IInv, OneCommand, spot, device
  <2> QED
    BY <2>2, <2>3, <2>4, <2>5 DEF IInv
<1> QED
  BY <1>1, <1>2

LEMMA FillInv ==
  ASSUME IInv, Fill
  PROVE  IInv'
<1>1. Registers'
  BY DEF IInv, Registers, Fill, here, port, spot, device, driver
<1>5. Flags'
  BY DEF IInv, Flags, Fill, here, port, spot, device, driver
<1>0. /\ pc = "fill" /\ slot \in Slot \ ci /\ pc' = "wait"
      /\ tbl' = [tbl EXCEPT ![slot] = Table(req)]
      /\ tbl \in [Slot -> {NONE} \cup {Table(r) : r \in Requests}]
      /\ req \in Requests /\ cmd = NONE
      /\ UNCHANGED <<mem, disk, cmd, moved, halted, ci, tfes, slot, req, faults, old>>
  BY DEF IInv, Memories, Registers, OneCommand, Fill, device
<1>6. tbl'[slot] = Table(req)
  BY <1>0
<1>4. Memories'
  BY <1>0 DEF IInv, Memories
<1>2. AtRest'
  BY DEF IInv, Flags, Registers, AtRest, OneCommand, Fill, Scanned, here, port, spot, device, driver
<1>3. OneCommand'
  BY <1>0, <1>6 DEF IInv, OneCommand
<1> QED
  BY <1>1, <1>2, <1>3, <1>4, <1>5 DEF IInv

LEMMA IssueInv ==
  ASSUME IInv, Issue
  PROVE  IInv'
<1>0. /\ pc = "wait" /\ pc' = "poll" /\ slot \in Slot \ ci /\ ci' = ci \cup {slot}
      /\ ci \subseteq Slot
      /\ UNCHANGED <<here, tbl, cmd, moved, halted, tfes, slot, req, ret, faults>>
  BY DEF IInv, Registers, OneCommand, Issue, port, device
<1>6. ci' \subseteq Slot
  BY <1>0
<1>1. Registers'
  BY <1>0, <1>6 DEF IInv, Registers, here
<1>5. Flags'
  BY DEF IInv, Flags, Issue, here, port, spot, device, driver
<1>4. Memories'
  BY DEF IInv, Memories, Issue, here, port, spot, device, driver
<1>2. AtRest'
  BY DEF IInv, Flags, Registers, AtRest, OneCommand, Issue, Scanned, here, port, spot, device, driver
<1>3. OneCommand'
  <2>1. cmd = NONE /\ tbl[slot] = Table(req)
    BY <1>0 DEF IInv, OneCommand
  <2>2. ~ halted => ci = {}
    BY <1>0 DEF IInv, OneCommand
  <2>3. ~ halted => ci' = {slot}
    BY <1>0, <2>2
  <2>4. tfes => halted
    BY <1>0 DEF IInv, OneCommand
  <2> QED
    BY <1>0, <2>1, <2>3, <2>4 DEF IInv, OneCommand
<1> QED
  BY <1>1, <1>2, <1>3, <1>4, <1>5 DEF IInv

LEMMA HungInv ==
  ASSUME IInv, Hung
  PROVE  IInv'
<1>1. Registers'
  BY DEF IInv, Registers, Hung, here, port, spot, device, driver, Return, Scanned
<1>5. Flags'
  BY DEF IInv, Flags, Hung, here, port, spot, device, driver, Return, Scanned
<1>4. Memories'
  BY DEF IInv, Memories, Hung, here, port, spot, device, driver, Return, Scanned
<1>2. AtRest'
  BY DEF IInv, Flags, Registers, AtRest, OneCommand, Hung, Scanned, here, port, spot, device, driver, Return
<1>3. OneCommand'
  BY DEF IInv, Flags, Registers, AtRest, OneCommand, Hung, Scanned, here, port, spot, device, driver, Return
<1> QED
  BY <1>1, <1>2, <1>3, <1>4, <1>5 DEF IInv

LEMMA PollInv ==
  ASSUME IInv, Poll
  PROVE  IInv'
<1>1. Registers'
  BY DEF IInv, Registers, Poll, here, port, spot, device, driver, Return, Scanned
<1>5. Flags'
  BY DEF IInv, Flags, Poll, here, port, spot, device, driver, Return, Scanned
<1>4. Memories'
  BY DEF IInv, Memories, Poll, here, port, spot, device, driver, Return, Scanned
<1>2. AtRest'
  BY DEF IInv, Flags, Registers, AtRest, OneCommand, Poll, Scanned, here, port, spot, device, driver, Return
<1>3. OneCommand'
  <2>1. /\ pc = "poll" /\ pc' # "poll" /\ pc' \notin {"fill", "wait"}
        /\ UNCHANGED <<ci, cmd, tfes, halted, faults>>
    BY DEF Poll, Return, device
  <2>2. slot \notin ci \/ tfes
    BY DEF Poll, Done
  <2>3. cmd = NONE /\ (ci # {} => halted)
    BY <2>1, <2>2 DEF IInv, OneCommand
  <2> QED
    BY <2>1, <2>3 DEF IInv, OneCommand
<1> QED
  BY <1>1, <1>2, <1>3, <1>4, <1>5 DEF IInv

LEMMA EngineCommandInv ==
  ASSUME IInv, EngineCommand
  PROVE  IInv'
<1>1. Registers'
  BY DEF IInv, Registers, EngineCommand, here, port, spot, device, driver
<1>5. Flags'
  BY DEF IInv, Flags, EngineCommand, here, port, spot, device, driver
<1>4. Memories'
  BY DEF IInv, Memories, EngineCommand, here, port, spot, device, driver
<1>2. AtRest'
  BY DEF IInv, Flags, Registers, AtRest, OneCommand, EngineCommand, Scanned, here, port, spot, device, driver
<1>3. OneCommand'
  BY DEF IInv, Flags, Registers, AtRest, OneCommand, EngineCommand, Scanned, here, port, spot, device, driver
<1> QED
  BY <1>1, <1>2, <1>3, <1>4, <1>5 DEF IInv

LEMMA EngineFisInv ==
  ASSUME IInv, EngineFis
  PROVE  IInv'
<1>1. Registers'
  BY DEF IInv, Registers, EngineFis, here, port, spot, device, driver
<1>5. Flags'
  BY DEF IInv, Flags, EngineFis, here, port, spot, device, driver
<1>4. Memories'
  BY DEF IInv, Memories, EngineFis, here, port, spot, device, driver
<1>2. AtRest'
  BY DEF IInv, Flags, Registers, AtRest, OneCommand, EngineFis, Scanned, here, port, spot, device, driver
<1>3. OneCommand'
  BY DEF IInv, Flags, Registers, AtRest, OneCommand, EngineFis, Scanned, here, port, spot, device, driver
<1> QED
  BY <1>1, <1>2, <1>3, <1>4, <1>5 DEF IInv

LEMMA ReadyInv ==
  ASSUME IInv, Ready
  PROVE  IInv'
<1>1. Registers'
  BY DEF IInv, Registers, Ready, here, port, spot, device, driver
<1>5. Flags'
  BY DEF IInv, Flags, Ready, here, port, spot, device, driver
<1>4. Memories'
  BY DEF IInv, Memories, Ready, here, port, spot, device, driver
<1>2. AtRest'
  BY DEF IInv, Flags, Registers, AtRest, OneCommand, Ready, Scanned, here, port, spot, device, driver
<1>3. OneCommand'
  BY DEF IInv, Flags, Registers, AtRest, OneCommand, Ready, Scanned, here, port, spot, device, driver
<1> QED
  BY <1>1, <1>2, <1>3, <1>4, <1>5 DEF IInv

LEMMA TransferInv ==
  ASSUME IInv, Transfer
  PROVE  IInv'
<1>1. Registers'
  BY DEF IInv, Registers, Transfer, here, port, spot, device, driver
<1>5. Flags'
  BY DEF IInv, Flags, Transfer, here, port, spot, device, driver
<1>0. /\ pc = "poll" /\ slot \in Slot /\ req \in Requests /\ moved \in Nat
      /\ cmd # NONE
      /\ cmd = [slot |-> slot, table |-> Table(req)] /\ tbl[slot] = Table(req)
      /\ moved < Table(req).count /\ moved' = moved + 1
      /\ UNCHANGED <<ci, tfes, tbl, cmd, halted, pc, slot, req, faults, old>>
  BY DEF IInv, Registers, OneCommand, Transfer, driver
<1>6. /\ Table(req).count \in 1 .. PerEntry
      /\ Place(Table(req), moved) \in Memory /\ Table(req).lba + moved \in Disk
  BY <1>0, TableIs, AhciAssumption
<1>4. Memories'
  <2>1. \/ /\ disk' = [disk EXCEPT ![Table(req).lba + moved] = mem[Place(Table(req), moved)]]
           /\ mem' = mem
        \/ /\ mem' = [mem EXCEPT ![Place(Table(req), moved)] = disk[Table(req).lba + moved]]
           /\ disk' = disk
    BY <1>0 DEF Transfer
  <2>2. mem \in [Memory -> Sector] /\ disk \in [Disk -> Sector]
    BY DEF IInv, Memories
  <2>3. mem' \in [Memory -> Sector] /\ disk' \in [Disk -> Sector]
    BY <2>1, <2>2, <1>6
  <2> QED
    BY <2>3, <1>0 DEF IInv, Memories
<1>2. AtRest'
  BY DEF IInv, Flags, Registers, AtRest, OneCommand, Transfer, Scanned, here, port, spot, device, driver
<1>3. OneCommand'
  <2>1. moved' <= Table(req).count
    BY <1>0, <1>6
  <2>2. ~ tfes /\ ~ halted /\ slot \in ci
    BY <1>0 DEF IInv, OneCommand
  <2> QED
    BY <1>0, <2>1, <2>2 DEF IInv, OneCommand
<1> QED
  BY <1>1, <1>2, <1>3, <1>4, <1>5 DEF IInv

LEMMA CompleteInv ==
  ASSUME IInv, Complete
  PROVE  IInv'
<1>1. Registers'
  BY DEF IInv, Registers, Complete, here, port, spot, device, driver
<1>5. Flags'
  BY DEF IInv, Flags, Complete, here, port, spot, device, driver
<1>4. Memories'
  BY DEF IInv, Memories, Complete, here, port, spot, device, driver
<1>2. AtRest'
  BY DEF IInv, Flags, Registers, AtRest, OneCommand, Complete, Scanned, here, port, spot, device, driver
<1>3. OneCommand'
  BY DEF IInv, Flags, Registers, AtRest, OneCommand, Complete, Scanned, here, port, spot, device, driver
<1> QED
  BY <1>1, <1>2, <1>3, <1>4, <1>5 DEF IInv

LEMMA TaskFileErrorInv ==
  ASSUME IInv, TaskFileError
  PROVE  IInv'
<1>1. Registers'
  BY DEF IInv, Registers, TaskFileError, here, port, spot, device, driver
<1>5. Flags'
  BY DEF IInv, Flags, TaskFileError, here, port, spot, device, driver
<1>4. Memories'
  BY DEF IInv, Memories, TaskFileError, here, port, spot, device, driver
<1>2. AtRest'
  BY DEF IInv, Flags, Registers, AtRest, OneCommand, TaskFileError, Scanned, here, port, spot, device, driver
<1>3. OneCommand'
  BY DEF IInv, Flags, Registers, AtRest, OneCommand, TaskFileError, Scanned, here, port, spot, device, driver
<1> QED
  BY <1>1, <1>2, <1>3, <1>4, <1>5 DEF IInv

LEMMA CallInv ==
  ASSUME IInv, NEW r \in Request, Call(r)
  PROVE  IInv'
<1>1. Registers'
  BY DEF IInv, Registers, Call, Requests, here, port, spot, device, driver
<1>5. Flags'
  BY DEF IInv, Flags, Call, Requests, here, port, spot, device, driver
<1>4. Memories'
  BY DEF IInv, Memories, Call, Requests, here, port, spot, device, driver
<1>2. AtRest'
  BY DEF IInv, Flags, Registers, AtRest, OneCommand, Call, Scanned, here, port, spot, device, driver
<1>3. OneCommand'
  BY DEF IInv, Flags, Registers, AtRest, OneCommand, Call, Scanned, here, port, spot, device, driver
<1> QED
  BY <1>1, <1>2, <1>3, <1>4, <1>5 DEF IInv

LEMMA FetchInv ==
  ASSUME IInv, NEW s \in Slot, Fetch(s)
  PROVE  IInv'
<1>1. Registers'
  BY DEF IInv, Registers, Fetch, here, port, spot, device, driver
<1>5. Flags'
  BY DEF IInv, Flags, Fetch, here, port, spot, device, driver
<1>4. Memories'
  BY DEF IInv, Memories, Fetch, here, port, spot, device, driver
<1>2. AtRest'
  BY DEF IInv, Flags, Registers, AtRest, OneCommand, Fetch, Scanned, here, port, spot, device, driver
<1>3. OneCommand'
  <2>1. /\ cr /\ ~ halted /\ s \in ci
        /\ cmd' = [slot |-> s, table |-> tbl[s]] /\ moved' = 0
        /\ UNCHANGED <<ci, tfes, tbl, halted, pc, slot, req, faults>>
    BY DEF Fetch, port, driver
  <2>2. pc = "poll" /\ s = slot /\ ~ tfes /\ tbl[slot] = Table(req) /\ req \in Requests
    BY <2>1 DEF IInv, OneCommand, Registers
  <2>3. moved' <= tbl[slot].count
    BY <2>1, <2>2, TableIs, AhciAssumption
  <2> QED
    BY <2>1, <2>2, <2>3 DEF IInv, OneCommand
<1> QED
  BY <1>1, <1>2, <1>3, <1>4, <1>5 DEF IInv

LEMMA StutterInv ==
  ASSUME IInv, UNCHANGED vars
  PROVE  IInv'
  BY DEF IInv, Memories, Flags, Registers, AtRest, OneCommand, Scanned, vars, here

LEMMA NextInv ==
  ASSUME IInv, [Next]_vars
  PROVE  IInv'
<1>1. CASE Driver
  BY <1>1, FindDeviceInv, EnterInv, PassInv, StopCmdInv, RebaseInv, StartCmdInv,
     ClearInterruptsInv, FindSlotInv, FillInv, IssueInv, PollInv DEF Driver
<1>2. CASE Controller
  BY <1>2, EngineCommandInv, EngineFisInv, ReadyInv, TransferInv, CompleteInv, FetchInv DEF Controller
<1>3. CASE Hung \/ TaskFileError \/ \E r \in Request : Call(r)
  BY <1>3, HungInv, TaskFileErrorInv, CallInv
<1>4. CASE Spin \/ Finished \/ UNCHANGED vars
  BY <1>4, StutterInv DEF Spin, Finished
<1> QED
  BY <1>1, <1>2, <1>3, <1>4 DEF Next

-----------------------------------------------------------------------------
(* Theorems *)

(* The driver of block/ahci.c and the controller keep to each other's      *)
(* rules: lists are moved at rest, one command is executed at a time, and  *)
(* it is the one the driver waits for.                                     *)
THEOREM AhciInv == Spec => []IInv
<1>1. Init => IInv
  BY InitInv
<1>2. IInv /\ [Next]_vars => IInv'
  BY NextInv
<1> QED
  BY <1>1, <1>2, PTL DEF Spec

(* The registers, tables and variables of the driver keep their types, and *)
(* no table holds more sectors than an entry.                              *)
THEOREM TypeCorrect == Spec => []TypeOK
<1>1. ASSUME IInv
      PROVE  TypeOK
  <2>1. ASSUME NEW s \in Slot
        PROVE  tbl[s] = NONE \/ tbl[s].count \in 1 .. PerEntry
    <3>1. Memories
      BY <1>1 DEF IInv
    <3>2. CASE \E r \in Requests : tbl[s] = Table(r)
      BY <3>2, TableIs
    <3> QED
      BY <3>1, <3>2, TableAt
  <2>2. {st, fre, cr, fr, tfes, busy, based, halted} \subseteq BOOLEAN
    BY <1>1 DEF IInv, Flags
  <2> QED
    BY <1>1, <2>1, <2>2 DEF IInv, Memories, Registers, TypeOK
<1> QED
  BY <1>1, AhciInv, PTL

(* ahci_port_rebase moves the lists of a port only when the controller has *)
(* stopped and executes nothing.                                           *)
THEOREM MovedAtRestHolds == Spec => MovedAtRest
<1>1. ASSUME IInv, [Next]_vars, ~ based, based'
      PROVE  ~ cr /\ ~ fr /\ cmd = NONE
  <2>1. cmd = NONE
    BY <1>1 DEF IInv, AtRest
  <2>2. CASE Rebase
    BY <2>1, <2>2 DEF Rebase, Stopped
  <2>3. CASE ~ Rebase
    <3>1. UNCHANGED based \/ Enter
      BY <1>1, <2>3 DEF Next, Driver, Controller, Spin, Finished, vars, FindDevice, Pass,
         StopCmd, StartCmd, ClearInterrupts, FindSlot, Fill, Issue, Poll, EngineCommand, EngineFis, Ready,
         Transfer, Complete, Fetch, Hung, TaskFileError, Call
    <3> QED
      BY <1>1, <3>1 DEF Enter
  <2> QED
    BY <2>2, <2>3
<1>2. IInv /\ [Next]_vars => [~ based /\ based' => ~ cr /\ ~ fr /\ cmd = NONE]_vars
  BY <1>1
<1> QED
  BY <1>2, AhciInv, PTL DEF Spec, MovedAtRest

(* While a command is in PxCI its table does not change, unless the driver *)
(* goes on to another port.                                                *)
THEOREM TablesStableHolds == Spec => TablesStable
<1>1. ASSUME IInv, [Next]_vars, pc # "scan"
      PROVE  \A s \in ci : tbl'[s] = tbl[s]
  <2>1. CASE Rebase
    BY <1>1, <2>1 DEF Rebase, IInv, AtRest
  <2>2. CASE Fill
    BY <1>1, <2>2 DEF Fill, IInv, OneCommand, Memories, Registers
  <2>3. CASE ~ Rebase /\ ~ Fill
    <3>1. UNCHANGED tbl
      BY <1>1, <2>3 DEF Next, Driver, Controller, Spin, Finished, vars, FindDevice, Pass,
         Enter, StopCmd, StartCmd, ClearInterrupts, FindSlot, Issue, Poll, EngineCommand, EngineFis, Ready,
         Transfer, Complete, Fetch, Hung, TaskFileError, Call
    <3> QED
      BY <3>1
  <2> QED
    BY <2>1, <2>2, <2>3
<1>2. IInv /\ [Next]_vars => [pc # "scan" => \A s \in ci : tbl'[s] = tbl[s]]_vars
  BY <1>1
<1> QED
  BY <1>2, AhciInv, PTL DEF Spec, TablesStable

(* Nothing moves in memory or on the disk between two calls, also when a   *)
(* command failed.                                                         *)
THEOREM NoLateTransferHolds == Spec => NoLateTransfer
<1>1. ASSUME IInv, [Next]_vars, pc = "idle"
      PROVE  UNCHANGED <<mem, disk>>
  <2>1. ~ Transfer
    BY <1>1 DEF Transfer, IInv, OneCommand
  <2> QED
    BY <1>1, <2>1 DEF Next, Driver, Controller, Spin, Finished, vars, FindDevice, Pass,
       Enter, StopCmd, Rebase, StartCmd, ClearInterrupts, FindSlot, Fill, Issue, Poll,
       EngineCommand, EngineFis, Ready, Complete, Fetch, Hung, TaskFileError, Call
<1>2. IInv /\ [Next]_vars => [pc = "idle" => UNCHANGED <<mem, disk>>]_vars
  BY <1>1
<1> QED
  BY <1>2, AhciInv, PTL DEF Spec, NoLateTransfer

-----------------------------------------------------------------------------
(* The bus *)

(* A number written to the address port names the register it is made of. *)
LEMMA RegisterIs ==
  ASSUME NEW bus \in 0 .. BusMax - 1, NEW dev \in 0 .. DevMax - 1,
         NEW func \in 0 .. FuncMax - 1, NEW n \in 0 .. 63, NEW k \in 0 .. 3
  PROVE  Register(ConfigAddr(bus, dev, func, 4 * n + k)) = <<bus, dev, func, n>>
<1> DEFINE a == bus * 65536 + dev * 2048 + func * 256 + 4 * n
<1>1. /\ bus \in Nat /\ bus < 256 /\ dev \in Nat /\ dev < 32
      /\ func \in Nat /\ func < 8 /\ n \in Nat /\ n < 64 /\ k \in Nat /\ k < 4
  BY DEF BusMax, DevMax, FuncMax
<1>2. ConfigAddr(bus, dev, func, 4 * n + k) = a
  <2>1. (4 * n + k) % 4 = k
    BY <1>1
  <2>2. 4 * n + k - ((4 * n + k) % 4) = 4 * n
    BY <1>1, <2>1
  <2> QED
    BY <2>2 DEF ConfigAddr
<1>3. a \div 65536 = bus
  BY <1>1
<1>4. (a \div 2048) % 32 = dev
  <2>1. a \div 2048 = bus * 32 + dev
    BY <1>1
  <2>2. (bus * 32 + dev) % 32 = dev
    BY <1>1
  <2> QED
    BY <2>1, <2>2
<1>5. (a \div 256) % 8 = func
  <2>1. a \div 256 = (bus * 32 + dev) * 8 + func
    BY <1>1
  <2>2. ((bus * 32 + dev) * 8 + func) % 8 = func
    BY <1>1
  <2> QED
    BY <2>1, <2>2
<1>6. (a % 256) \div 4 = n
  <2>1. a % 256 = 4 * n
    <3>1. a = ((bus * 32 + dev) * 8 + func) * 256 + 4 * n /\ (bus * 32 + dev) * 8 + func \in Nat
      BY <1>1
    <3> QED
      BY <1>1, <3>1
  <2>2. (4 * n) \div 4 = n
    BY <1>1
  <2> QED
    BY <2>1, <2>2
<1> HIDE DEF a
<1> QED
  BY <1>2, <1>3, <1>4, <1>5, <1>6 DEF Register

(* The bytes of a register that is there. *)
LEMMA SpaceIs ==
  ASSUME NEW space, ConfigSpace(space), NEW r \in DOMAIN space
  PROVE  /\ r[1] \in 0 .. BusMax - 1 /\ r[2] \in 0 .. DevMax - 1
         /\ r[3] \in 0 .. FuncMax - 1 /\ r[4] \in 0 .. 63
         /\ r = <<r[1], r[2], r[3], r[4]>>
         /\ space[r][1] \in Byte /\ space[r][2] \in Byte
         /\ space[r][3] \in Byte /\ space[r][4] \in Byte
         /\ space[r] = <<space[r][1], space[r][2], space[r][3], space[r][4]>>
<1>1. r \in RegPlace /\ space[r] \in Byte \X Byte \X Byte \X Byte
  BY DEF ConfigSpace
<1> QED
  BY <1>1 DEF RegPlace

Read(space, bus, dev, func, n) ==
  IF <<bus, dev, func, n>> \in DOMAIN space
  THEN space[<<bus, dev, func, n>>] ELSE <<255, 255, 255, 255>>

LEMMA ReadIs ==
  ASSUME NEW space, NEW bus \in 0 .. BusMax - 1, NEW dev \in 0 .. DevMax - 1,
         NEW func \in 0 .. FuncMax - 1
  PROVE  /\ In(space, ConfigAddr(bus, dev, func, 0)) = Read(space, bus, dev, func, 0)
         /\ In(space, ConfigAddr(bus, dev, func, 2)) = Read(space, bus, dev, func, 0)
         /\ In(space, ConfigAddr(bus, dev, func, 9)) = Read(space, bus, dev, func, 2)
         /\ In(space, ConfigAddr(bus, dev, func, 14)) = Read(space, bus, dev, func, 3)
         /\ In(space, ConfigAddr(bus, dev, func, 36)) = Read(space, bus, dev, func, 9)
<1>1. ASSUME NEW n \in 0 .. 63, NEW k \in 0 .. 3
      PROVE  In(space, ConfigAddr(bus, dev, func, 4 * n + k)) = Read(space, bus, dev, func, n)
  <2>1. Register(ConfigAddr(bus, dev, func, 4 * n + k)) = <<bus, dev, func, n>>
    BY RegisterIs
  <2> QED
    BY <2>1 DEF In, Read
<1>2. /\ 0 \in 0 .. 63 /\ 2 \in 0 .. 63 /\ 3 \in 0 .. 63 /\ 9 \in 0 .. 63
      /\ 0 \in 0 .. 3 /\ 1 \in 0 .. 3 /\ 2 \in 0 .. 3
      /\ 4 * 0 + 0 = 0 /\ 4 * 0 + 2 = 2 /\ 4 * 2 + 1 = 9 /\ 4 * 3 + 2 = 14 /\ 4 * 9 + 0 = 36
  OBVIOUS
<1>3. /\ In(space, ConfigAddr(bus, dev, func, 4 * 0 + 0)) = Read(space, bus, dev, func, 0)
      /\ In(space, ConfigAddr(bus, dev, func, 4 * 0 + 2)) = Read(space, bus, dev, func, 0)
      /\ In(space, ConfigAddr(bus, dev, func, 4 * 2 + 1)) = Read(space, bus, dev, func, 2)
      /\ In(space, ConfigAddr(bus, dev, func, 4 * 3 + 2)) = Read(space, bus, dev, func, 3)
      /\ In(space, ConfigAddr(bus, dev, func, 4 * 9 + 0)) = Read(space, bus, dev, func, 9)
  BY <1>1, <1>2
<1> QED
  BY <1>2, <1>3
Ahcis(space) ==
  {r \in DOMAIN space : r[3] = 0 /\ r[4] = 0 /\ space[r] = <<134, 128, 34, 41>>}

(* The numbers of vendor and device are those of the controller exactly    *)
(* when the four bytes are.                                                *)
LEMMA IdsAre ==
  ASSUME NEW b1 \in Byte, NEW b2 \in Byte, NEW b3 \in Byte, NEW b4 \in Byte
  PROVE  /\ Word(b1, b2) = Intel <=> b1 = 134 /\ b2 = 128
         /\ Word(b3, b4) = AhciId <=> b3 = 34 /\ b4 = 41
         /\ Word(b1, b2) = NoDevice <=> b1 = 255 /\ b2 = 255
BY DEF Byte, Word, Intel, AhciId, NoDevice

LEMMA ControllerIs ==
  ASSUME ConfigSpace(machine.config),
         NEW bus \in 0 .. BusMax - 1, NEW dev \in 0 .. DevMax - 1
  PROVE  <<bus, dev>> \in Controllers <=> <<bus, dev, 0, 0>> \in Ahcis(machine.config)
<1> DEFINE space == machine.config
           r == <<bus, dev, 0, 0>>
           bytes == Read(space, bus, dev, 0, 0)
<1>1. 0 \in 0 .. FuncMax - 1
  BY DEF FuncMax
<1>2. /\ Ven(space, bus, dev, 0) = Word(bytes[1], bytes[2])
      /\ Dev(space, bus, dev, 0) = Word(bytes[3], bytes[4])
  BY <1>1, ReadIs DEF Ven, Dev, ReadHalf
<1>3. <<bus, dev>> \in Controllers
        <=> Word(bytes[1], bytes[2]) = Intel /\ Word(bytes[3], bytes[4]) = AhciId
  BY <1>2 DEF Controllers
<1>4. CASE r \in DOMAIN space
  <2>1. bytes = space[r]
    BY <1>4 DEF Read
  <2>2. /\ space[r][1] \in Byte /\ space[r][2] \in Byte
        /\ space[r][3] \in Byte /\ space[r][4] \in Byte
        /\ space[r] = <<space[r][1], space[r][2], space[r][3], space[r][4]>>
    BY <1>4, SpaceIs
  <2>3. space[r] = <<134, 128, 34, 41>>
          <=> space[r][1] = 134 /\ space[r][2] = 128 /\ space[r][3] = 34 /\ space[r][4] = 41
    BY ONLY <2>2
  <2>4. r[3] = 0 /\ r[4] = 0
    OBVIOUS
  <2>5. r \in Ahcis(space) <=> space[r] = <<134, 128, 34, 41>>
    BY <1>4, <2>4 DEF Ahcis
  <2>6. Word(bytes[1], bytes[2]) = Intel /\ Word(bytes[3], bytes[4]) = AhciId
          <=> space[r][1] = 134 /\ space[r][2] = 128 /\ space[r][3] = 34 /\ space[r][4] = 41
    BY <2>1, <2>2, IdsAre
  <2> QED
    BY <1>3, <2>3, <2>5, <2>6
<1>5. CASE r \notin DOMAIN space
  <2>1. bytes[1] = 255 /\ bytes[2] = 255
    BY <1>5 DEF Read
  <2>2. Word(bytes[1], bytes[2]) # Intel
    BY <2>1 DEF Word, Intel
  <2>3. r \notin Ahcis(space)
    BY <1>5 DEF Ahcis
  <2> QED
    BY <1>3, <2>2, <2>3
<1> QED
  BY <1>4, <1>5

Index(r) == r[1] * DevMax + r[2]

(* Of the controllers on the bus one is found, if there is any.            *)
LEMMA FoundIs ==
  ASSUME ConfigSpace(machine.config)
  PROVE  /\ Found = {} <=> Ahcis(machine.config) = {}
         /\ Abar = {machine.config[<<r[1], r[2], 0, 9>>] :
                      r \in {s \in Ahcis(machine.config) :
                               \A t \in Ahcis(machine.config) : Index(s) <= Index(t)}}
<1> DEFINE space == machine.config
           A == Ahcis(space)
           First == {s \in A : \A t \in A : Index(s) <= Index(t)}
<1>1. ASSUME NEW r \in A
      PROVE  /\ r \in DOMAIN space
             /\ r[1] \in 0 .. BusMax - 1 /\ r[2] \in 0 .. DevMax - 1
             /\ r = <<r[1], r[2], 0, 0>> /\ <<r[1], r[2]>> \in Controllers
  <2>1. r \in DOMAIN space /\ r[3] = 0 /\ r[4] = 0
    BY DEF Ahcis
  <2>2. /\ r[1] \in 0 .. BusMax - 1 /\ r[2] \in 0 .. DevMax - 1
        /\ r = <<r[1], r[2], r[3], r[4]>>
    BY <2>1, SpaceIs
  <2>3. r = <<r[1], r[2], 0, 0>>
    BY <2>1, <2>2
  <2>4. <<r[1], r[2], 0, 0>> \in A
    BY <2>3
  <2> QED
    BY <2>1, <2>2, <2>3, <2>4, ControllerIs
<1>2. ASSUME NEW c \in Controllers
      PROVE  /\ c[1] \in 0 .. BusMax - 1 /\ c[2] \in 0 .. DevMax - 1 /\ c = <<c[1], c[2]>>
             /\ <<c[1], c[2], 0, 0>> \in A
  <2>1. c[1] \in 0 .. BusMax - 1 /\ c[2] \in 0 .. DevMax - 1 /\ c = <<c[1], c[2]>>
    BY DEF Controllers
  <2>2. <<c[1], c[2]>> \in Controllers
    BY <2>1
  <2> QED
    BY <2>1, <2>2, ControllerIs
<1>3. ASSUME NEW b \in 0 .. BusMax - 1, NEW d \in 0 .. DevMax - 1,
             NEW e \in 0 .. BusMax - 1, NEW f \in 0 .. DevMax - 1
      PROVE  b < e \/ (b = e /\ d <= f) <=> b * DevMax + d <= e * DevMax + f
  BY DEF BusMax, DevMax
<1> HIDE DEF A
<1>4. ASSUME NEW r \in A
      PROVE  <<r[1], r[2]>> \in Found <=> r \in First
  <2>1. ASSUME <<r[1], r[2]>> \in Found, NEW t \in A
        PROVE  Index(r) <= Index(t)
    <3>1. <<t[1], t[2]>> \in Controllers
      BY <1>1
    <3>2. r[1] < t[1] \/ (r[1] = t[1] /\ r[2] <= t[2])
      BY <2>1, <3>1 DEF Found
    <3> QED
      BY <1>1, <1>3, <3>2 DEF Index
  <2>2. ASSUME r \in First, NEW c \in Controllers
        PROVE  r[1] < c[1] \/ (r[1] = c[1] /\ r[2] <= c[2])
    <3>1. <<c[1], c[2], 0, 0>> \in A
      BY <1>2
    <3>2. Index(r) <= Index(<<c[1], c[2], 0, 0>>)
      BY <2>2, <3>1
    <3>3. r[1] * DevMax + r[2] <= c[1] * DevMax + c[2]
      BY <3>2 DEF Index
    <3> QED
      BY <1>1, <1>2, <1>3, <3>3
  <2> QED
    BY <1>1, <2>1, <2>2 DEF Found
<1>5. ASSUME NEW c \in Found
      PROVE  <<c[1], c[2], 0, 0>> \in First
  <2>1. c \in Controllers
    BY DEF Found
  <2> DEFINE r == <<c[1], c[2], 0, 0>>
  <2>2. r \in A /\ r[1] = c[1] /\ r[2] = c[2] /\ c = <<r[1], r[2]>>
    BY <1>2, <2>1
  <2> HIDE DEF r
  <2>3. <<r[1], r[2]>> \in Found
    BY <2>2
  <2> QED
    BY <1>4, <2>2, <2>3 DEF r
<1>6. A # {} => First # {}
  <2> DEFINE I == {Index(r) : r \in A}
  <2>1. I \in SUBSET Nat
    <3>1. ASSUME NEW r \in A
          PROVE  Index(r) \in Nat
      <4>1. r[1] \in 0 .. BusMax - 1 /\ r[2] \in 0 .. DevMax - 1
        BY <1>1
      <4>2. r[1] \in Nat /\ r[2] \in Nat /\ DevMax \in Nat
        BY ONLY <4>1 DEF BusMax, DevMax
      <4> QED
        BY <4>2 DEF Index
    <3> QED
      BY <3>1
  <2>2. ASSUME A # {}
        PROVE  \E m \in I : \A n \in I : m <= n
    <3>1. I # {}
      BY <2>2
    <3> HIDE DEF I
    <3>2. IsWellFoundedOn(OpToRel(<, Nat), Nat)
      BY NatLessThanWellFounded
    <3>3. PICK m \in I : \A n \in I : <<n, m>> \notin OpToRel(<, Nat)
      BY <2>1, <3>1, <3>2, WFMin
    <3>4. \A n \in I : ~ (n < m)
      BY <2>1, <3>3 DEF OpToRel
    <3> QED
      BY <2>1, <3>4
  <2> QED
    BY <2>2
<1>7. Found = {} <=> A = {}
  BY <1>4, <1>5, <1>6
<1>8. ASSUME NEW r \in A
      PROVE  Bar(space, r[1], r[2], 0, Bar5) = space[<<r[1], r[2], 0, 9>>]
  <2>1. /\ r \in DOMAIN space /\ r[3] = 0
        /\ r[1] \in 0 .. BusMax - 1 /\ r[2] \in 0 .. DevMax - 1 /\ 0 \in 0 .. FuncMax - 1
    <3>1. r = <<r[1], r[2], 0, 0>>
      BY <1>1
    <3>2. r[3] = 0
      BY <3>1
    <3>3. 0 \in 0 .. FuncMax - 1
      BY DEF FuncMax
    <3> QED
      BY <1>1, <3>2, <3>3
  <2>2. <<r[1], r[2], 0, 9>> \in DOMAIN space
    BY <2>1 DEF ConfigSpace
  <2>3. In(space, ConfigAddr(r[1], r[2], 0, 36)) = Read(space, r[1], r[2], 0, 9)
    BY <2>1, ReadIs
  <2> QED
    BY <2>2, <2>3 DEF Bar, ReadWord, Bar5, Read
<1>9. Abar = {space[<<r[1], r[2], 0, 9>>] : r \in First}
  <2>1. ASSUME NEW c \in Found
        PROVE  \E r \in First : Bar(space, c[1], c[2], 0, Bar5) = space[<<r[1], r[2], 0, 9>>]
    <3> DEFINE r == <<c[1], c[2], 0, 0>>
    <3>1. r \in First /\ r \in A /\ r[1] = c[1] /\ r[2] = c[2]
      BY <1>5
    <3> HIDE DEF r
    <3>2. Bar(space, r[1], r[2], 0, Bar5) = space[<<r[1], r[2], 0, 9>>]
      BY <1>8, <3>1
    <3> QED
      BY <3>1, <3>2
  <2>2. ASSUME NEW r \in First
        PROVE  \E c \in Found : space[<<r[1], r[2], 0, 9>>] = Bar(space, c[1], c[2], 0, Bar5)
    <3>1. r \in A /\ <<r[1], r[2]>> \in Found
      BY <1>4
    <3>2. Bar(space, r[1], r[2], 0, Bar5) = space[<<r[1], r[2], 0, 9>>]
      BY <1>8, <3>1
    <3> QED
      BY <3>1, <3>2
  <2> QED
    BY <2>1, <2>2 DEF Abar
<1> QED
  BY <1>7, <1>9 DEF A

(* Of the driver's steps ahci_init's first is the one that leaves "probe". *)
LEMMA ProbeStep ==
  ASSUME [Next]_vars, pc = "probe", pc' # "probe"
  PROVE  FindDevice
BY DEF driver, Next, Driver, Controller, Spin, Finished, vars, Pass, Enter, StopCmd, Rebase,
   StartCmd, ClearInterrupts, FindSlot, Fill, Issue, Poll, EngineCommand, EngineFis, Ready, Transfer,
   Complete, Fetch, Hung, TaskFileError, Call

(* ahci_init talks to the first controller that the bus has, for any       *)
(* configuration space that keeps to the standard, and to none only if it  *)
(* has none (find_ahci_device).                                            *)
THEOREM ControllerFoundHolds == Spec => ControllerFound
<1> DEFINE ahcis == {r \in DOMAIN machine.config :
                       r[3] = 0 /\ r[4] = 0 /\ machine.config[r] = <<134, 128, 34, 41>>}
           Number(r) == r[1] * DevMax + r[2]
           Right == /\ pc' = "nodev" <=> ahcis = {}
                    /\ Abar = {machine.config[<<r[1], r[2], 0, 9>>] :
                                 r \in {s \in ahcis : \A t \in ahcis : Number(s) <= Number(t)}}
<1>1. ASSUME IInv, [Next]_vars, pc = "probe", pc' # "probe"
      PROVE  Right
  <2>1. ConfigSpace(machine.config)
    BY <1>1, MachineAssumption DEF IInv, Registers
  <2>2. pc' = IF Found = {} THEN "nodev" ELSE "scan"
    BY <1>1, ProbeStep DEF FindDevice
  <2>3. pc' = "nodev" <=> Found = {}
    BY <2>2
  <2> QED
    BY <2>1, <2>3, FoundIs DEF Ahcis, Index
<1>2. IInv /\ [Next]_vars => [pc = "probe" /\ pc' # "probe" => Right]_vars
  BY <1>1
<1> QED
  BY <1>2, AhciInv, PTL DEF Spec, ControllerFound

-----------------------------------------------------------------------------
(* The block device *)

(* The two hypotheses of this section: there is a slot that                *)
(* ahci_find_empty_cmd_slot looks at, and no call asks for more sectors    *)
(* than one region entry has; a longer one is not done (RequestDone).      *)
WithinEntry ==
  /\ Slots > 1
  /\ \A r \in Request : r.count <= PerEntry

(* A call touches no sector but those it names. *)
Frame ==
  /\ \A n \in Memory : mem[n] = old.mem[n]
       \/ (~ req.write /\ n \in req.buf .. req.buf + req.count - 1)
  /\ \A n \in Disk : disk[n] = old.disk[n]
       \/ (req.write /\ n \in req.lba .. req.lba + req.count - 1)

(* The first k sectors of the request have been moved. *)
MovedUpTo(k) ==
  \A i \in 0 .. k - 1 :
    IF req.write THEN disk[req.lba + i] = old.mem[req.buf + i]
                 ELSE mem[req.buf + i] = old.disk[req.lba + i]

Untouched == mem = old.mem /\ disk = old.disk

(* As long as nothing failed, the sectors arrive in their order, and a     *)
(* command is taken back when the last has.                                *)
InOrder ==
  faults = 0 =>
    /\ cmd # NONE => MovedUpTo(moved)
    /\ pc = "poll" /\ slot \notin ci => MovedUpTo(req.count)
    /\ pc = "scan" => Untouched \/ MovedUpTo(req.count)
    /\ pc \in {"clear", "find", "fill", "wait"} /\ Scanned => Untouched
    /\ pc = "probe" => Untouched

Content == Frame /\ InOrder

LEMMA EntryCount ==
  ASSUME WithinEntry, NEW r \in Requests
  PROVE  Table(r).count = r.count
<1>1. r.count <= PerEntry
  BY AhciAssumption DEF WithinEntry, Requests, FirstRead
<1> QED
  BY <1>1, TableIs

LEMMA InitContent ==
  ASSUME Init
  PROVE  Content
  BY DEF Init, Content, Frame, InOrder, Untouched, NONE

(* Steps that leave memory, disk, the call and the count of faults alone:  *)
(* Frame stays, and what InOrder says of the sectors.                      *)
LEMMA SameSectors ==
  ASSUME Frame, UNCHANGED <<mem, disk, old, req>>
  PROVE  /\ Frame'
         /\ Untouched' = Untouched
         /\ \A k : MovedUpTo(k)' = MovedUpTo(k)
  BY DEF Frame, Untouched, MovedUpTo

LEMMA TransferContent ==
  ASSUME IInv, Content, WithinEntry, Transfer
  PROVE  Content'
<1>0. /\ pc = "poll" /\ req \in Requests /\ moved \in Nat /\ cmd # NONE
      /\ slot \in ci /\ slot \in Slot
      /\ cmd = [slot |-> slot, table |-> Table(req)]
      /\ moved < Table(req).count /\ moved' = moved + 1
      /\ UNCHANGED <<ci, cmd, pc, slot, req, faults, old>>
  BY DEF IInv, Registers, OneCommand, Transfer, driver
<1>1. /\ Place(Table(req), moved) = req.buf + moved
      /\ Table(req).lba = req.lba /\ Table(req).write = req.write
      /\ req.buf + moved \in Memory /\ req.lba + moved \in Disk
      /\ moved < req.count
  <2>1. moved \in 0 .. Table(req).count - 1 /\ Table(req).count = req.count
    BY <1>0, TableIs, EntryCount
  <2>2. /\ Place(Table(req), moved) = req.buf + moved
        /\ Place(Table(req), moved) \in Memory
        /\ Table(req).lba + moved \in Disk
        /\ Table(req).lba = req.lba /\ Table(req).write = req.write
    BY <1>0, <2>1, TableIs
  <2> QED
    BY <1>0, <2>1, <2>2
<1>2. /\ req.write \in BOOLEAN /\ req.lba \in Nat /\ req.buf \in Nat /\ req.count \in Nat
      /\ mem \in [Memory -> Sector] /\ disk \in [Disk -> Sector]
      /\ Memory \subseteq Nat /\ Disk \subseteq Nat
      /\ req.buf .. req.buf + req.count - 1 \subseteq Memory
      /\ req.lba .. req.lba + req.count - 1 \subseteq Disk
  BY <1>0, RequestAssumption, AhciAssumption DEF IInv, Memories
<1>3. IF req.write
      THEN /\ disk' = [disk EXCEPT ![req.lba + moved] = mem[req.buf + moved]]
           /\ mem' = mem
      ELSE /\ mem' = [mem EXCEPT ![req.buf + moved] = disk[req.lba + moved]]
           /\ disk' = disk
  BY <1>0, <1>1 DEF Transfer
<1>4. Frame'
  <2>1. ASSUME NEW n \in Memory
        PROVE  mem'[n] = old.mem[n]
                 \/ (~ req.write /\ n \in req.buf .. req.buf + req.count - 1)
    BY <1>0, <1>1, <1>2, <1>3, <2>1 DEF Content, Frame
  <2>2. ASSUME NEW n \in Disk
        PROVE  disk'[n] = old.disk[n]
                 \/ (req.write /\ n \in req.lba .. req.lba + req.count - 1)
    BY <1>0, <1>1, <1>2, <1>3, <2>2 DEF Content, Frame
  <2> QED
    BY <1>0, <2>1, <2>2 DEF Frame
<1>5. ASSUME faults = 0
      PROVE  MovedUpTo(moved)'
  <2>1. MovedUpTo(moved)
    BY <1>0, <1>5 DEF Content, InOrder
  <2>2. ASSUME NEW i \in 0 .. moved
        PROVE  IF req.write THEN disk'[req.lba + i] = old.mem[req.buf + i]
                            ELSE mem'[req.buf + i] = old.disk[req.lba + i]
    <3>4. i \in Nat /\ i <= moved /\ i < req.count
      BY <1>0, <1>1, <1>2
    <3>5. /\ req.buf + i \in req.buf .. req.buf + req.count - 1
          /\ req.lba + i \in req.lba .. req.lba + req.count - 1
      BY <1>2, <3>4
    <3>6. i # moved => i \in 0 .. moved - 1
      BY <1>0, <3>4
    <3>1. /\ req.buf + i \in Memory /\ req.lba + i \in Disk
          /\ i # moved => i \in 0 .. moved - 1
      BY <1>2, <3>5, <3>6
    <3>2. CASE req.write
      <4>1. mem[req.buf + moved] = old.mem[req.buf + moved]
        BY <1>1, <3>2 DEF Content, Frame
      <4>2. disk'[req.lba + i] = IF i = moved THEN mem[req.buf + moved] ELSE disk[req.lba + i]
        BY <1>0, <1>1, <1>2, <1>3, <3>1, <3>2
      <4> QED
        BY <2>1, <3>1, <3>2, <4>1, <4>2 DEF MovedUpTo
    <3>3. CASE ~ req.write
      <4>1. disk[req.lba + moved] = old.disk[req.lba + moved]
        BY <1>1, <3>3 DEF Content, Frame
      <4>2. mem'[req.buf + i] = IF i = moved THEN disk[req.lba + moved] ELSE mem[req.buf + i]
        BY <1>0, <1>1, <1>2, <1>3, <3>1, <3>3
      <4> QED
        BY <2>1, <3>1, <3>3, <4>1, <4>2 DEF MovedUpTo
    <3> QED
      BY <3>2, <3>3
  <2>3. moved' - 1 = moved
    BY <1>0
  <2> QED
    BY <1>0, <2>2, <2>3 DEF MovedUpTo
<1> QED
  BY <1>0, <1>4, <1>5 DEF Content, InOrder

LEMMA CompleteContent ==
  ASSUME IInv, Content, WithinEntry, Complete
  PROVE  Content'
<1>1. /\ pc = "poll" /\ req \in Requests /\ moved = Table(req).count /\ cmd # NONE
      /\ cmd' = NONE
      /\ UNCHANGED <<mem, disk, old, pc, slot, req, faults>>
  BY DEF IInv, Registers, OneCommand, Complete, driver
<1>2. moved = req.count
  BY <1>1, EntryCount
<1>3. Frame' /\ \A k : MovedUpTo(k)' = MovedUpTo(k)
  BY <1>1, SameSectors DEF Content
<1>4. faults = 0 => MovedUpTo(req.count)
  BY <1>1, <1>2 DEF Content, InOrder
<1>5. faults' = 0 => MovedUpTo(req.count)'
  BY <1>1, <1>3, <1>4 DEF MovedUpTo
<1> QED
  BY <1>1, <1>3, <1>5 DEF Content, InOrder

LEMMA FetchContent ==
  ASSUME IInv, Content, NEW s \in Slot, Fetch(s)
  PROVE  Content'
<1>1. /\ s \in ci /\ ~ halted /\ moved' = 0
      /\ UNCHANGED <<mem, disk, old, ci, pc, slot, req, faults>>
  BY DEF Fetch, driver
<1>2. pc = "poll" /\ slot \in ci
  BY <1>1 DEF IInv, OneCommand
<1>3. Frame'
  BY <1>1, SameSectors DEF Content
<1>4. MovedUpTo(moved)'
  BY <1>1 DEF MovedUpTo
<1> QED
  BY <1>1, <1>2, <1>3, <1>4 DEF Content, InOrder

(* A call begins. *)
LEMMA CallContent ==
  ASSUME IInv, NEW r \in Request, Call(r)
  PROVE  Content'
<1>1. /\ pc' = "clear" /\ cmd' = cmd /\ cmd = NONE
      /\ mem' = mem /\ disk' = disk /\ old' = [mem |-> mem, disk |-> disk]
  BY DEF IInv, OneCommand, Call, device
<1>2. Frame'
  BY <1>1 DEF Frame
<1>3. Untouched'
  BY <1>1 DEF Untouched
<1> QED
  BY <1>1, <1>2, <1>3 DEF Content, InOrder

(* A failure leaves the sectors open, not those that are named. *)
LEMMA FaultContent ==
  ASSUME IInv, Content, Hung \/ TaskFileError
  PROVE  Content'
<1>1. /\ faults \in Nat /\ faults' = faults + 1
      /\ UNCHANGED <<mem, disk, old, req>>
  BY DEF IInv, Registers, Hung, TaskFileError, driver
<1>2. Frame'
  BY <1>1, SameSectors DEF Content
<1> QED
  BY <1>1, <1>2 DEF Content, InOrder

(* The steps of the driver that give nothing back to its caller. *)
LEMMA DriverContent ==
  ASSUME IInv, Content,
         FindDevice \/ Enter \/ Pass \/ StopCmd \/ Rebase \/ StartCmd
           \/ ClearInterrupts \/ Fill \/ Issue
  PROVE  Content'
<1>1. UNCHANGED <<mem, disk, old, req, faults>>
  BY DEF FindDevice, Enter, Pass, StopCmd, Rebase, StartCmd, ClearInterrupts, Fill, Issue
<1>2. /\ Frame' /\ Untouched' = Untouched
      /\ \A k : MovedUpTo(k)' = MovedUpTo(k)
  BY <1>1, SameSectors DEF Content
<1>3. pc # "poll" /\ cmd = NONE /\ cmd' = NONE
  BY DEF IInv, OneCommand, FindDevice, Enter, Pass, StopCmd, Rebase, StartCmd,
     ClearInterrupts, Fill, Issue, device
<1>4. CASE FindDevice \/ Pass
  <2>1. pc' \in {"nodev", "scan", "idle"} /\ pc \in {"probe", "scan"}
    BY <1>4 DEF FindDevice, Pass
  <2>2. faults' = 0 /\ pc' = "scan" => Untouched' \/ MovedUpTo(req.count)'
    BY <1>1, <1>2, <2>1 DEF Content, InOrder, MovedUpTo
  <2> QED
    BY <1>2, <1>3, <2>1, <2>2 DEF Content, InOrder
<1>5. CASE Enter \/ StopCmd \/ Rebase \/ StartCmd
  <2>1. ~ Scanned /\ UNCHANGED <<machine, portno>> /\ pc' \in {"stop", "rebase", "start", "clear"}
    BY <1>5 DEF IInv, AtRest, Enter, StopCmd, Rebase, StartCmd, port, here
  <2>2. ~ Scanned'
    BY <2>1 DEF Scanned
  <2> QED
    BY <1>2, <1>3, <2>1, <2>2 DEF Content, InOrder
<1>6. CASE ClearInterrupts \/ Fill \/ Issue
  <2>1. /\ pc \in {"clear", "fill", "wait"} /\ pc' \in {"find", "wait", "poll"}
        /\ UNCHANGED <<machine, portno>>
        /\ pc' = "poll" => slot' \in ci'
    BY <1>6 DEF ClearInterrupts, Fill, Issue, port, here
  <2>2. Scanned' = Scanned
    BY <2>1 DEF Scanned
  <2> QED
    BY <1>1, <1>2, <1>3, <2>1, <2>2 DEF Content, InOrder
<1> QED
  BY <1>4, <1>5, <1>6

LEMMA FindSlotContent ==
  ASSUME IInv, Content, WithinEntry, FindSlot
  PROVE  /\ Content'
         /\ pc' # "fill" => faults > 0
<1>1. /\ UNCHANGED <<mem, disk, old, req, faults, cmd, ci, halted>>
      /\ pc = "find" /\ cmd = NONE /\ faults \in Nat
      /\ \/ pc' = "fill" /\ UNCHANGED <<machine, portno>>
         \/ Usable = {} /\ pc' \in {"idle", "scan"}
  BY DEF IInv, OneCommand, Registers, FindSlot, device, spot, Return
<1>2. /\ Frame' /\ Untouched' = Untouched
  BY <1>1, SameSectors DEF Content
<1>3. CASE pc' = "fill" /\ UNCHANGED <<machine, portno>>
  <2>1. Scanned' = Scanned
    BY <1>3 DEF Scanned
  <2> QED
    BY <1>1, <1>2, <1>3, <2>1 DEF Content, InOrder
<1>4. CASE Usable = {} /\ pc' \in {"idle", "scan"}
  <2>1. 0 \in ci
    BY <1>4, AhciAssumption DEF Usable, WithinEntry
  <2>2. faults > 0
    BY <1>1, <2>1 DEF IInv, OneCommand
  <2> QED
    BY <1>1, <1>2, <2>2 DEF Content, InOrder
<1> QED
  BY <1>1, <1>3, <1>4

LEMMA PollContent ==
  ASSUME IInv, Content, Poll
  PROVE  /\ Content'
         /\ faults = 0 => MovedUpTo(req.count)
<1>1. /\ UNCHANGED <<mem, disk, old, req, faults, cmd>>
      /\ pc = "poll" /\ pc' \in {"idle", "scan"} /\ Done /\ faults \in Nat
  BY DEF IInv, Registers, Poll, device, spot, Return
<1>2. Frame' /\ \A k : MovedUpTo(k)' = MovedUpTo(k)
  BY <1>1, SameSectors DEF Content
<1>3. faults = 0 => slot \notin ci
  BY <1>1 DEF IInv, OneCommand, Done
<1>4. faults = 0 => MovedUpTo(req.count)
  BY <1>1, <1>3 DEF Content, InOrder
<1>5. faults' = 0 => MovedUpTo(req.count)'
  BY <1>1, <1>4 DEF MovedUpTo
<1>6. cmd = NONE \/ faults > 0
  BY <1>1, <1>3 DEF IInv, OneCommand
<1> QED
  BY <1>1, <1>2, <1>4, <1>5, <1>6 DEF Content, InOrder

(* The controller clears PxCI only of a port that is being stopped. *)
LEMMA EngineContent ==
  ASSUME IInv, Content, EngineCommand \/ EngineFis \/ Ready
  PROVE  Content'
<1>1. /\ UNCHANGED <<mem, disk, old, pc, slot, req, faults, machine, portno, cmd>>
      /\ cmd = NONE
  BY DEF EngineCommand, EngineFis, Ready, driver, here, port, device
<1>2. /\ Frame' /\ Untouched' = Untouched
      /\ \A k : MovedUpTo(k)' = MovedUpTo(k)
  BY <1>1, SameSectors DEF Content
<1>3. pc = "poll" => ci' = ci
  BY DEF EngineCommand, EngineFis, Ready, IInv, AtRest, Flags
<1>4. Scanned' = Scanned
  BY <1>1 DEF Scanned
<1>5. MovedUpTo(req.count)' = MovedUpTo(req.count)
  BY <1>1 DEF MovedUpTo
<1> QED
  BY <1>1, <1>2, <1>3, <1>4, <1>5 DEF Content, InOrder

LEMMA StutterContent ==
  ASSUME Content, UNCHANGED vars
  PROVE  Content'
<1>1. UNCHANGED <<mem, disk, old, pc, slot, req, faults, machine, portno, cmd, moved, ci>>
  BY DEF vars, here
<1>2. Frame' /\ Untouched' = Untouched
  BY <1>1, SameSectors DEF Content
<1>3. /\ MovedUpTo(req.count)' = MovedUpTo(req.count)
      /\ MovedUpTo(moved)' = MovedUpTo(moved)
  BY <1>1 DEF MovedUpTo
<1>4. Scanned' = Scanned
  BY <1>1 DEF Scanned
<1> QED
  BY <1>1, <1>2, <1>3, <1>4 DEF Content, InOrder

LEMMA NextContent ==
  ASSUME IInv, Content, WithinEntry, [Next]_vars
  PROVE  Content'
<1>1. CASE Driver
  BY <1>1, DriverContent, FindSlotContent, PollContent DEF Driver
<1>2. CASE Controller
  BY <1>2, EngineContent, TransferContent, CompleteContent, FetchContent DEF Controller
<1>3. CASE Hung \/ TaskFileError \/ \E r \in Request : Call(r)
  BY <1>3, FaultContent, CallContent
<1>4. CASE Spin \/ Finished \/ UNCHANGED vars
  BY <1>4, StutterContent DEF Spin, Finished
<1> QED
  BY <1>1, <1>2, <1>3, <1>4 DEF Next

(* Memory and disk hold what the requests have moved so far, in the order  *)
(* of the request, and nothing else changed.                               *)
THEOREM ContentHolds ==
  ASSUME WithinEntry
  PROVE  Spec => []Content
<1>1. Init => Content
  BY InitContent
<1>2. IInv /\ Content /\ [Next]_vars => Content'
  BY NextContent
<1> QED
  BY <1>1, <1>2, AhciInv, PTL DEF Spec

(* What a caller sees of memory and of the disk. *)
SeenDisk == IF pc = "idle" THEN disk ELSE old.disk
SeenMem  == IF pc = "idle" THEN mem ELSE old.mem

(* A call that was done is a Read or a Write of the block device. *)
LEMMA DoneStep ==
  ASSUME IInv, Content, MovedUpTo(req.count), faults = 0,
         pc # "idle", pc' = "idle", UNCHANGED <<mem, disk, faults>>
  PROVE  Device!Next
<1>1. /\ req \in Requests /\ req.write \in BOOLEAN
      /\ req.lba \in Nat /\ req.buf \in Nat /\ req.count \in Nat
      /\ mem \in [Memory -> Sector] /\ disk \in [Disk -> Sector]
      /\ old.mem \in [Memory -> Sector] /\ old.disk \in [Disk -> Sector]
      /\ Memory \subseteq Nat /\ Disk \subseteq Nat
  BY RequestAssumption, AhciAssumption DEF IInv, Memories, Registers
<1>2. SeenDisk = old.disk /\ SeenMem = old.mem /\ SeenDisk' = disk /\ SeenMem' = mem
  BY DEF SeenDisk, SeenMem
<1>3. CASE ~ req.write
  <2>5. \A n \in Disk : disk[n] = old.disk[n]
    BY <1>3 DEF Content, Frame
  <2>1. disk = old.disk
    <3>1. disk = [n \in Disk |-> disk[n]] /\ old.disk = [n \in Disk |-> old.disk[n]]
      BY <1>1
    <3> QED
      BY <2>5, <3>1
  <2>2. ASSUME NEW n \in Memory
        PROVE  mem[n] = IF n \in req.buf .. req.buf + req.count - 1
                        THEN old.disk[req.lba + n - req.buf] ELSE old.mem[n]
    <3>1. CASE n \in req.buf .. req.buf + req.count - 1
      <4>1. n - req.buf \in 0 .. req.count - 1 /\ req.buf + (n - req.buf) = n
            /\ req.lba + (n - req.buf) = req.lba + n - req.buf
        BY <1>1, <3>1
      <4>2. mem[req.buf + (n - req.buf)] = old.disk[req.lba + (n - req.buf)]
        BY <1>3, <4>1 DEF MovedUpTo
      <4> QED
        BY <3>1, <4>1, <4>2
    <3> QED
      BY <3>1 DEF Content, Frame
  <2>3. mem = [n \in DOMAIN old.mem |->
                 IF n \in req.buf .. req.buf + req.count - 1
                 THEN old.disk[req.lba + n - req.buf] ELSE old.mem[n]]
    BY <1>1, <2>2
  <2>4. Device!Read(req)
    BY <1>2, <1>3, <2>1, <2>3 DEF Device!Read, Device!Named, SeenDisk, SeenMem
  <2> QED
    BY <1>1, <2>4 DEF Device!Next
<1>4. CASE req.write
  <2>5. \A n \in Memory : mem[n] = old.mem[n]
    BY <1>4 DEF Content, Frame
  <2>1. mem = old.mem
    <3>1. mem = [n \in Memory |-> mem[n]] /\ old.mem = [n \in Memory |-> old.mem[n]]
      BY <1>1
    <3> QED
      BY <2>5, <3>1
  <2>2. ASSUME NEW n \in Disk
        PROVE  disk[n] = IF n \in req.lba .. req.lba + req.count - 1
                         THEN old.mem[req.buf + n - req.lba] ELSE old.disk[n]
    <3>1. CASE n \in req.lba .. req.lba + req.count - 1
      <4>1. n - req.lba \in 0 .. req.count - 1 /\ req.lba + (n - req.lba) = n
            /\ req.buf + (n - req.lba) = req.buf + n - req.lba
        BY <1>1, <3>1
      <4>2. disk[req.lba + (n - req.lba)] = old.mem[req.buf + (n - req.lba)]
        BY <1>4, <4>1 DEF MovedUpTo
      <4> QED
        BY <3>1, <4>1, <4>2
    <3> QED
      BY <3>1 DEF Content, Frame
  <2>3. disk = [n \in DOMAIN old.disk |->
                  IF n \in req.lba .. req.lba + req.count - 1
                  THEN old.mem[req.buf + n - req.lba] ELSE old.disk[n]]
    BY <1>1, <2>2
  <2>4. Device!Write(req)
    BY <1>2, <1>4, <2>1, <2>3 DEF Device!Write, Device!Named, SeenDisk, SeenMem
  <2> QED
    BY <1>1, <2>4 DEF Device!Next
<1> QED
  BY <1>1, <1>3, <1>4

(* Once a command has failed, a call that returns may have done anything   *)
(* to the sectors it names.                                                *)
LEMMA SpoiledStep ==
  ASSUME IInv, Content, faults > 0, faults' > 0,
         pc # "idle", pc' = "idle", UNCHANGED <<mem, disk>>
  PROVE  Device!Next
<1>1. /\ req \in Requests
      /\ old.mem \in [Memory -> Sector] /\ old.disk \in [Disk -> Sector]
  BY DEF IInv, Memories, Registers
<1>2. SeenDisk = old.disk /\ SeenMem = old.mem /\ SeenDisk' = disk /\ SeenMem' = mem
  BY DEF SeenDisk, SeenMem
<1>3. Device!Spoil(req)
  BY <1>1, <1>2 DEF Device!Spoil, Device!Named, Content, Frame, SeenDisk, SeenMem
<1> QED
  BY <1>1, <1>3 DEF Device!Next

(* A call that did nothing returns. *)
LEMMA UntouchedStep ==
  ASSUME Untouched, pc # "idle", pc' = "idle", UNCHANGED <<mem, disk>>
  PROVE  SeenDisk' = SeenDisk /\ SeenMem' = SeenMem
  BY DEF Untouched, SeenDisk, SeenMem

(* Between the return of one call and of the next nothing is seen. *)
LEMMA QuietStep ==
  ASSUME pc # "idle", pc' # "idle", UNCHANGED old
  PROVE  SeenDisk' = SeenDisk /\ SeenMem' = SeenMem
  BY DEF SeenDisk, SeenMem

SeenStep == [Device!Next]_<<SeenDisk, SeenMem, faults > 0>>

LEMMA ReturnSeen ==
  ASSUME IInv, Content, WithinEntry, FindSlot \/ Poll \/ Pass
  PROVE  SeenStep
<1>1. /\ UNCHANGED <<mem, disk, old, faults>> /\ faults \in Nat /\ pc # "idle"
  BY DEF IInv, Registers, FindSlot, Poll, Pass
<1>2. CASE pc' # "idle"
  BY <1>1, <1>2, QuietStep DEF SeenStep
<1>3. CASE pc' = "idle" /\ faults > 0
  BY <1>1, <1>3, SpoiledStep DEF SeenStep
<1>4. CASE pc' = "idle" /\ faults = 0
  <2>1. Untouched \/ MovedUpTo(req.count)
    BY <1>4, FindSlotContent, PollContent DEF Pass, Content, InOrder
  <2>2. CASE Untouched
    BY <1>1, <1>4, <2>2, UntouchedStep DEF SeenStep
  <2>3. CASE MovedUpTo(req.count)
    BY <1>1, <1>4, <2>3, DoneStep DEF SeenStep
  <2> QED
    BY <2>1, <2>2, <2>3
<1> QED
  BY <1>1, <1>2, <1>3, <1>4

LEMMA FaultSeen ==
  ASSUME IInv, Content, Hung \/ TaskFileError
  PROVE  SeenStep
<1>1. /\ UNCHANGED <<mem, disk, old>> /\ pc # "idle"
      /\ faults \in Nat /\ faults' = faults + 1
      /\ pc' = "idle" => pc = "wait" /\ Scanned
  BY DEF IInv, Registers, OneCommand, Hung, TaskFileError, Return, driver
<1>2. faults = 0 \/ pc' # "idle" => SeenDisk' = SeenDisk /\ SeenMem' = SeenMem
  BY <1>1, QuietStep, UntouchedStep DEF Content, InOrder
<1>3. CASE faults = 0
  BY <1>1, <1>2, <1>3 DEF SeenStep, Device!Next, Device!Break, SeenDisk, SeenMem
<1>4. CASE faults > 0 /\ pc' # "idle"
  BY <1>1, <1>2, <1>4 DEF SeenStep
<1>5. CASE faults > 0 /\ pc' = "idle"
  BY <1>1, <1>5, SpoiledStep DEF SeenStep
<1> QED
  BY <1>1, <1>3, <1>4, <1>5

LEMMA OtherSeen ==
  ASSUME IInv, [Next]_vars, ~ (FindSlot \/ Poll \/ Pass \/ Hung \/ TaskFileError)
  PROVE  SeenStep
<1>1. CASE \E r \in Request : Call(r)
  BY <1>1 DEF Call, SeenStep, SeenDisk, SeenMem
<1>2. CASE Transfer
  <2>1. pc = "poll" /\ UNCHANGED <<pc, old, faults>>
    BY <1>2 DEF Transfer, IInv, OneCommand, driver
  <2> QED
    BY <2>1, QuietStep DEF SeenStep
<1>3. CASE ~ (\E r \in Request : Call(r)) /\ ~ Transfer
  <2>1. /\ UNCHANGED <<mem, disk, old, faults>>
        /\ UNCHANGED pc \/ (pc # "idle" /\ pc' # "idle")
    BY <1>3 DEF Next, Driver, Controller, Spin, Finished, vars, driver, FindDevice, Enter,
       StopCmd, Rebase, StartCmd, ClearInterrupts, Fill, Issue, EngineCommand, EngineFis, Ready, Complete, Fetch
  <2> QED
    BY <2>1 DEF SeenStep, SeenDisk, SeenMem
<1> QED
  BY <1>1, <1>2, <1>3

(* The driver of block/ahci.c with its controller is a block device, on    *)
(* any machine and for any number of calls and faults, as long as no call  *)
(* asks for more than the sectors of one region entry.                     *)
THEOREM RefinesBlockDevice ==
  ASSUME WithinEntry
  PROVE  Spec => ImplementsBlockDevice
<1>1. Init => Device!Init
  <2> SUFFICES ASSUME Init
               PROVE  Device!Init
    OBVIOUS
  <2>1. IInv /\ pc = "probe" /\ faults = 0
    BY InitInv DEF Init
  <2>2. SeenDisk = old.disk /\ SeenMem = old.mem
    BY <2>1 DEF SeenDisk, SeenMem
  <2>3. old.mem \in [Memory -> Sector] /\ old.disk \in [Disk -> Sector]
    BY <2>1 DEF IInv, Memories
  <2>4. DOMAIN old.mem = Memory /\ DOMAIN old.disk = Disk
    BY <2>3
  <2>5. ~ (faults > 0)
    BY <2>1
  <2>6. /\ SeenDisk \in [DOMAIN SeenDisk -> Sector]
        /\ SeenMem \in [DOMAIN SeenMem -> Sector]
    BY <2>2, <2>3, <2>4
  <2> QED
    BY <2>5, <2>6 DEF Device!Init, SeenDisk, SeenMem
<1>2. IInv /\ Content /\ [Next]_vars => SeenStep
  BY ReturnSeen, FaultSeen, OtherSeen
<1>3. IInv /\ Content /\ [Next]_vars
        => [Device!Next]_<<IF pc = "idle" THEN disk ELSE old.disk,
                           IF pc = "idle" THEN mem ELSE old.mem, faults > 0>>
  BY <1>2 DEF SeenStep, SeenDisk, SeenMem
<1> QED
  BY <1>1, <1>3, AhciInv, ContentHolds, PTL DEF Spec, ImplementsBlockDevice, Device!Spec
=============================================================================
