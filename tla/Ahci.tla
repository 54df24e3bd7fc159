-------------------------------- MODULE Ahci --------------------------------
(***************************************************************************)
(* The AHCI driver of block/ahci.c, and the host controller beside it.     *)
(*                                                                         *)
(* ahci_init looks for the controller and goes through its ports: a port   *)
(* with a SATA drive gets ahci_port_rebase and a read of sector 0, and the *)
(* last of them serves the calls of ahci_read and ahci_write after that.   *)
(* The driver never comes back to a port it has left, so the registers are *)
(* those of one port at a time.                                            *)
(*                                                                         *)
(* The driver shares with the controller the registers and the command     *)
(* tables in memory, and each access that the other side can notice is a   *)
(* step.  The controller is modelled as the code expects it to be.         *)
(*                                                                         *)
(* Memory and disk are counted in sectors.  Faulty variants of a           *)
(* definition stand in front of it: StoppedAtOnce and StoppedIfRunning,    *)
(* UsableIgnoringCI, EntriesOffByOne, DoneAtOnce; nothing uses them.       *)
(***************************************************************************)
EXTENDS Integers, Sequences, FiniteSets, Pci

CONSTANTS
  Slots,       \* command slots of the controller
  CapSlots,    \* bits 8-12 of its capabilities: Slots - 1
  PerEntry,    \* sectors in a region entry: 16
  Advance,     \* sectors by which buf advances from entry to entry: 4
  Request,     \* the requests callers make: records of write, lba, count, buf
  Memory,      \* the sectors of memory that buffers lie in
  Disk,        \* the sectors of the disk
  Machine,     \* the machines: records of the configuration space (Pci)
               \* and of the controller's ports
  MaxCalls,    \* bound: number of calls
  MaxFaults    \* bound: number of failing commands, hung ports

Slot == 0 .. Slots - 1

ASSUME AhciAssumption ==
  /\ Slots \in Nat \ {0}
  /\ CapSlots = Slots - 1
  /\ PerEntry \in Nat \ {0}
  /\ Advance \in Nat
  /\ Memory \subseteq Nat
  /\ Disk \subseteq Nat
  /\ \A m \in Machine : Len(m.ports) \in Nat
  /\ MaxCalls \in Nat
  /\ MaxFaults \in Nat

ASSUME MachineAssumption == \A m \in Machine : ConfigSpace(m.config)

(* The read of ahci_init. *)
FirstRead == [write |-> FALSE, lba |-> 0, count |-> 1, buf |-> 0]

Requests == Request \cup {FirstRead}

(* Callers ask for sectors that the disk and their buffers have.           *)
ASSUME RequestAssumption ==
  \A r \in Requests :
    /\ r.write \in BOOLEAN /\ r.lba \in Nat /\ r.buf \in Nat
    /\ r.count \in Nat \ {0}
    /\ r.buf .. r.buf + r.count - 1 \subseteq Memory
    /\ r.lba .. r.lba + r.count - 1 \subseteq Disk

Sector == {"disk", "mem"} \X Nat

-----------------------------------------------------------------------------
VARIABLES
  machine,      \* the one the kernel runs on
  portno,       \* ahci_init's i: the port it is at, or behind the last
  active,       \* mgr.active_port
  (* the registers of the port the driver is at *)
  st, fre,      \* bits of PxCMD the driver sets
  cr, fr,       \* bits of PxCMD that say the controller runs
  ci,           \* PxCI: the slots with a command
  tfes,         \* PxIS.TFES
  busy,         \* PxTFD.BSY or DRQ
  (* memory *)
  based,        \* the port's lists have been moved to the driver's
  tbl,          \* the command header and table of each slot
  mem,
  (* the device *)
  disk,
  cmd,          \* the command it executes, NONE if none
  moved,        \* the sectors of it that were moved
  halted,       \* it stopped at an error and waits for ST to be cleared
  (* the driver *)
  pc, req, slot, ret,
  calls, faults,    \* counted for the bounds
  old           \* auxiliary: memory and disk when the call began

here   == <<machine, portno, active>>
port   == <<here, st, fre, cr, fr>>
spot   == <<machine, active, st, fre, cr, fr>>
device == <<cmd, moved, halted>>
driver == <<pc, req, slot, ret>>
vars   == <<here, st, fre, cr, fr, ci, tfes, busy, based, tbl, mem, disk, cmd, moved,
            halted, pc, req, slot, ret, calls, faults, old>>

NONE  == <<>>
EBUSY == -16

Init ==
  /\ machine \in Machine /\ portno = 0 /\ active = 0
  /\ st = FALSE /\ fre = FALSE /\ cr = FALSE /\ fr = FALSE
  /\ ci = {}
  /\ tfes = FALSE /\ busy = FALSE
  /\ based = FALSE
  /\ tbl = [s \in Slot |-> NONE]
  /\ mem = [n \in Memory |-> <<"mem", n>>]
  /\ disk = [n \in Disk |-> <<"disk", n>>]
  /\ cmd = NONE /\ moved = 0 /\ halted = FALSE
  /\ pc = "probe" /\ req = FirstRead /\ slot = -1 /\ ret = 0
  /\ calls = 0 /\ faults = 0
  /\ old = [mem |-> mem, disk |-> disk]

-----------------------------------------------------------------------------
(* ahci_init *)

Intel  == 32902    \* 0x8086
AhciId == 10530    \* 0x2922
Bar5   == 36

(* find_ahci_device: the first bus and slot whose function 0 is the        *)
(* controller, and nothing is tried behind it.                             *)
Controllers ==
  {d \in (0 .. BusMax - 1) \X (0 .. DevMax - 1) :
     /\ Ven(machine.config, d[1], d[2], 0) = Intel
     /\ Dev(machine.config, d[1], d[2], 0) = AhciId}

Found ==
  {c \in Controllers :
     \A d \in Controllers : c[1] < d[1] \/ (c[1] = d[1] /\ c[2] <= d[2])}

(* Where its registers are: abar. *)
Abar == {Bar(machine.config, c[1], c[2], 0, Bar5) : c \in Found}

FindDevice ==
  /\ pc = "probe"
  /\ pc' = IF Found = {} THEN "nodev" ELSE "scan"
  /\ UNCHANGED <<port, ci, tfes, busy, based, tbl, mem, disk, device, req,
                 slot, ret, calls, faults, old>>

(* ahci_check_type of an implemented port: a device must be there and      *)
(* awake, and what is none of the others is a SATA drive.                  *)
Type(p) ==
  IF ~ p.implemented \/ p.det # "present" \/ p.ipm # "active" THEN "NULL"
  ELSE IF p.sig \in {"SATAPI", "SEMB", "PM"} THEN p.sig
  ELSE "SATA"

Scanned == portno >= Len(machine.ports)
PortHere == machine.ports[portno + 1]

(* The loop of ahci_init comes to a SATA drive, in the state in which the  *)
(* BIOS left its port.                                                     *)
Enter ==
  /\ pc = "scan" /\ ~ Scanned
  /\ Type(PortHere) = "SATA"
  /\ pc' = "stop"
  /\ active' = portno
  /\ st' \in BOOLEAN /\ fre' \in {st', TRUE} /\ cr' = st' /\ fr' = fre'
  /\ ci' = {} /\ tfes' = FALSE /\ busy' \in BOOLEAN
  /\ based' = FALSE /\ tbl' = [s \in Slot |-> NONE]
  /\ cmd' = NONE /\ moved' = 0 /\ halted' = FALSE
  /\ UNCHANGED <<machine, portno, mem, disk, req, slot, ret, calls, faults, old>>

(* The loop passes by any other port, and ends.                            *)
Pass ==
  /\ pc = "scan"
  /\ IF Scanned THEN pc' = "idle" /\ UNCHANGED portno
     ELSE Type(PortHere) # "SATA" /\ portno' = portno + 1 /\ UNCHANGED pc
  /\ UNCHANGED <<spot, ci, tfes, busy, based, tbl, mem,
                 disk, device, req, slot, ret, calls, faults, old>>

-----------------------------------------------------------------------------
(* ahci_port_rebase *)

(* stop_cmd up to its loop *)
StopCmd ==
  /\ pc = "stop"
  /\ pc' = "rebase"
  /\ st' = FALSE /\ fre' = FALSE
  /\ UNCHANGED <<here, cr, fr, ci, tfes, busy, based, tbl, mem, disk, device, req,
                 slot, ret, calls, faults, old>>

(* The loop of stop_cmd. *)
StoppedAtOnce == TRUE
StoppedIfRunning == fr /\ cr
Stopped == ~ fr /\ ~ cr

(* The loop ends; the command list, the FIS area and the tables get their  *)
(* places and are cleared.                                                 *)
Rebase ==
  /\ pc = "rebase"
  /\ Stopped
  /\ pc' = "start"
  /\ based' = TRUE
  /\ tbl' = [s \in Slot |-> NONE]
  /\ UNCHANGED <<port, ci, tfes, busy, mem, disk, device, req, slot, ret,
                 calls, faults, old>>

(* start_cmd, and ahci_init goes on to its read of sector 0. *)
StartCmd ==
  /\ pc = "start"
  /\ ~ cr
  /\ pc' = "clear"
  /\ fre' = TRUE /\ st' = TRUE
  /\ UNCHANGED <<here, cr, fr, ci, tfes, busy, based, tbl, mem, disk, device, req,
                 slot, ret, calls, faults, old>>

-----------------------------------------------------------------------------
(* _ahci_read and _ahci_write *)

Call(r) ==
  /\ pc = "idle"
  /\ calls < MaxCalls
  /\ calls' = calls + 1
  /\ pc' = "clear"
  /\ req' = r
  /\ old' = [mem |-> mem, disk |-> disk]
  /\ UNCHANGED <<port, ci, tfes, busy, based, tbl, mem, disk, device, slot, ret,
                 faults>>

(* Back to the caller; ahci_init goes on to the next port. *)
Return(r) ==
  /\ ret' = r
  /\ IF Scanned
     THEN pc' = "idle" /\ UNCHANGED portno
     ELSE pc' = "scan" /\ portno' = portno + 1

(* "Clear pending interrupt bits" *)
ClearInterrupts ==
  /\ pc = "clear"
  /\ pc' = "find"
  /\ tfes' = FALSE
  /\ UNCHANGED <<port, ci, busy, based, tbl, mem, disk, device, req, slot, ret,
                 calls, faults, old>>

(* ahci_find_empty_cmd_slot, which does not look at the last slot: the     *)
(* capability is the number of slots less one.                             *)
UsableIgnoringCI == 0 .. CapSlots - 1
Usable == {s \in 0 .. CapSlots - 1 : s \notin ci}

FindSlot ==
  /\ pc = "find"
  /\ IF Usable = {}
     THEN Return(EBUSY) /\ UNCHANGED slot
     ELSE /\ pc' = "fill"
          /\ slot' \in Usable
          /\ \A s \in Usable : slot' <= s
          /\ UNCHANGED <<ret, portno>>
  /\ UNCHANGED <<spot, ci, tfes, busy, based, tbl, mem, disk, device, req,
                 calls, faults, old>>

(* The table for a request.  The loop over the entries takes PerEntry      *)
(* sectors each from count, and what is left of count goes into the last   *)
(* entry and into the command.                                             *)
EntriesOffByOne(r) == r.count \div PerEntry + 1
Entries(r) == (r.count - 1) \div PerEntry + 1

Table(r) ==
  [write |-> r.write,
   lba   |-> r.lba,
   count |-> r.count - (Entries(r) - 1) * PerEntry,
   prdt  |-> [i \in 0 .. Entries(r) - 1 |-> r.buf + i * Advance]]

Fill ==
  /\ pc = "fill"
  /\ pc' = "wait"
  /\ tbl' = [tbl EXCEPT ![slot] = Table(req)]
  /\ UNCHANGED <<port, ci, tfes, busy, based, mem, disk, device, req, slot, ret,
                 calls, faults, old>>

(* "waits until the port is no longer busy before issuing a new command" *)
Issue ==
  /\ pc = "wait"
  /\ ~ busy
  /\ pc' = "poll"
  /\ ci' = ci \cup {slot}
  /\ UNCHANGED <<port, tfes, busy, based, tbl, mem, disk, device, req, slot, ret,
                 calls, faults, old>>

(* The loop gives up after 1000000 rounds, however long that is: "Port is  *)
(* hung", and false is returned.                                           *)
Hung ==
  /\ pc = "wait"
  /\ busy
  /\ faults < MaxFaults
  /\ faults' = faults + 1
  /\ Return(0)
  /\ UNCHANGED <<spot, ci, tfes, busy, based, tbl, mem, disk, device, req, slot,
                 calls, old>>

(* The loop that waits for completion ends when the command is done, or    *)
(* else when there was an error.  Either way 0 is returned.                *)
DoneAtOnce == TRUE
Done == slot \notin ci \/ tfes

Poll ==
  /\ pc = "poll"
  /\ Done
  /\ Return(0)
  /\ UNCHANGED <<spot, ci, tfes, busy, based, tbl, mem, disk, device, req, slot,
                 calls, faults, old>>

(* The loops of stop_cmd, start_cmd and of the wait for completion have no *)
(* limit: while their condition does not hold they go round.               *)
Spin ==
  /\ \/ pc = "rebase" /\ ~ Stopped
     \/ pc = "start" /\ cr
     \/ pc = "poll" /\ ~ Done
  /\ UNCHANGED vars

Driver ==
  \/ FindDevice \/ Enter \/ Pass
  \/ StopCmd \/ Rebase \/ StartCmd
  \/ ClearInterrupts \/ FindSlot \/ Fill \/ Issue \/ Poll

-----------------------------------------------------------------------------
(* The controller and the device *)

(* CR follows ST, and clearing ST clears the commands.                     *)
EngineCommand ==
  /\ cmd = NONE
  /\ cr # st
  /\ cr' = st
  /\ ci' = IF st THEN ci ELSE {}
  /\ halted' = (halted /\ st)
  /\ UNCHANGED <<here, st, fre, fr, tfes, busy, based, tbl, mem, disk, cmd, moved, driver,
                 calls, faults, old>>

(* FR follows FRE, before CR or after it. *)
EngineFis ==
  /\ cmd = NONE
  /\ fr # fre
  /\ fr' = fre
  /\ UNCHANGED <<here, st, fre, cr, ci, tfes, busy, based, tbl, mem, disk, device, driver,
                 calls, faults, old>>

(* A device is busy after power-on, before the first command. *)
Ready ==
  /\ busy /\ cmd = NONE
  /\ busy' = FALSE
  /\ UNCHANGED <<port, ci, tfes, based, tbl, mem, disk, device, driver, calls,
                 faults, old>>

Fetch(s) ==
  /\ cr /\ ~ halted /\ ~ busy
  /\ s \in ci
  /\ cmd = NONE
  /\ cmd' = [slot |-> s, table |-> tbl[s]]
  /\ moved' = 0
  /\ busy' = TRUE
  /\ UNCHANGED <<port, ci, tfes, based, tbl, mem, disk, halted, driver, calls,
                 faults, old>>

(* The place in memory of the k-th sector of a command. *)
Place(t, k) == t.prdt[k \div PerEntry] + (k % PerEntry)

Transfer ==
  /\ cmd # NONE
  /\ moved < cmd.table.count
  /\ moved' = moved + 1
  /\ LET t == cmd.table IN
     IF t.write
     THEN /\ disk' = [disk EXCEPT ![t.lba + moved] = mem[Place(t, moved)]]
          /\ UNCHANGED mem
     ELSE /\ mem' = [mem EXCEPT ![Place(t, moved)] = disk[t.lba + moved]]
          /\ UNCHANGED disk
  /\ UNCHANGED <<port, ci, tfes, busy, based, tbl, cmd, halted, driver, calls,
                 faults, old>>

Complete ==
  /\ cmd # NONE
  /\ moved = cmd.table.count
  /\ ci' = ci \ {cmd.slot}
  /\ cmd' = NONE
  /\ busy' = FALSE
  /\ UNCHANGED <<port, tfes, based, tbl, mem, disk, moved, halted, driver, calls,
                 faults, old>>

(* A task file error: the controller stops, and the command keeps its bit  *)
(* in PxCI.                                                                *)
TaskFileError ==
  /\ cmd # NONE
  /\ faults < MaxFaults
  /\ faults' = faults + 1
  /\ tfes' = TRUE
  /\ halted' = TRUE
  /\ cmd' = NONE
  /\ busy' = FALSE
  /\ UNCHANGED <<port, ci, based, tbl, mem, disk, moved, driver, calls, old>>

Controller ==
  \/ EngineCommand \/ EngineFis \/ Ready \/ Transfer \/ Complete
  \/ \E s \in Slot : Fetch(s)

-----------------------------------------------------------------------------
(* All calls the bound allows have returned, or there is no controller. *)
Finished ==
  /\ pc = "nodev" \/ (pc = "idle" /\ calls = MaxCalls)
  /\ UNCHANGED vars

Next ==
  \/ Driver \/ Spin \/ Controller
  \/ Hung \/ TaskFileError
  \/ \E r \in Request : Call(r)
  \/ Finished

(* The processor executes the driver's polling loops, and a controller     *)
(* that is not stopped by an error finishes what it was given.             *)
Fairness == WF_vars(Driver) /\ WF_vars(Controller)

Spec == Init /\ [][Next]_vars /\ Fairness

-----------------------------------------------------------------------------
(* Properties *)

TypeOK ==
  /\ {st, fre, cr, fr, tfes, busy, based, halted} \subseteq BOOLEAN
  /\ ci \subseteq Slot
  /\ mem \in [Memory -> Sector]
  /\ disk \in [Disk -> Sector]
  /\ req \in Requests
  /\ \A s \in Slot : tbl[s] = NONE \/ tbl[s].count \in 1 .. PerEntry
  /\ slot \in Slot \cup {-1}
  /\ portno \in 0 .. Len(machine.ports) /\ active \in 0 .. portno
  /\ ret \in {0, EBUSY}

(* "Wait until FR (bit14), CR (bit15) are cleared": the lists are moved    *)
(* and cleared only while the controller does not use them, and it uses    *)
(* none but the driver's (stop_cmd, ahci_port_rebase).                     *)
MovedAtRest == [][~ based /\ based' => ~ cr /\ ~ fr /\ cmd = NONE]_vars

(* The driver leaves the table of a command alone while the controller has *)
(* it, also after a command that failed and was never taken back, until it *)
(* leaves the port (ahci_find_empty_cmd_slot).                             *)
TablesStable == [][pc # "scan" => \A s \in ci : tbl'[s] = tbl[s]]_vars

(* The device touches the caller's buffer and the disk only while the call *)
(* runs: once it returned, also with an error, the caller may use both     *)
(* (the loop that waits for completion).                                   *)
NoLateTransfer == [][pc = "idle" => UNCHANGED <<mem, disk>>]_vars

(* As long as no command fails every call returns (stop_cmd's, start_cmd's *)
(* and the polling loops end).                                             *)
EveryCallReturns == pc # "idle" ~> pc \in {"idle", "nodev"} \/ faults > 0

(* "8K bytes (16 sectors) per PRDT": with any number of entries, a call    *)
(* that no failure met did what it was asked to do (_ahci_read).           *)
Did(r) ==
  \A i \in 0 .. r.count - 1 :
    IF r.write THEN disk[r.lba + i] = old.mem[r.buf + i]
               ELSE mem[r.buf + i] = old.disk[r.lba + i]
RequestDone == (pc = "idle" /\ faults = 0) => Did(req)

(* The controller whose registers the driver uses is the first that the    *)
(* bus has as the first function of a device, whatever other devices and   *)
(* functions there are; there is none to talk to only if the bus has none  *)
(* (find_ahci_device, pci_get_ven, pci_get_dev, pci_get_bar).              *)
ControllerFound ==
  [][pc = "probe" /\ pc' # "probe" =>
       LET space == machine.config
           ahcis == {r \in DOMAIN space :
                       r[3] = 0 /\ r[4] = 0 /\ space[r] = <<134, 128, 34, 41>>}
           Index(r) == r[1] * DevMax + r[2]
       IN  /\ pc' = "nodev" <=> ahcis = {}
           /\ Abar = {space[<<r[1], r[2], 0, 9>>] : r \in {s \in ahcis :
                         \A t \in ahcis : Index(s) <= Index(t)}}]_vars

(* The driver, between its calls, is a block device (_ahci_read,           *)
(* _ahci_write): what a call did is seen when it returns.                  *)
Device == INSTANCE BlockDevice WITH
  Request <- Requests,
  broken <- faults > 0,
  disk <- IF pc = "idle" THEN disk ELSE old.disk,
  mem <- IF pc = "idle" THEN mem ELSE old.mem
ImplementsBlockDevice == Device!Spec
=============================================================================
