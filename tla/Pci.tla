--------------------------------- MODULE Pci ---------------------------------
(***************************************************************************)
(* The PCI bus: P/pci.c and the functions of block/ahci.c that read a      *)
(* configuration space in the same way.  A number is written to one port   *)
(* and names a register, whose 32 bits are then read from another.         *)
(*                                                                         *)
(* A configuration space is a function from the registers that devices     *)
(* have, <<bus, dev, func, number>>, to their four bytes, lowest first.    *)
(*                                                                         *)
(* A faulty variant, which nothing uses, stands in front of its            *)
(* definition: ConfigAddrSwapped.                                          *)
(***************************************************************************)
EXTENDS Integers, Sequences

BusMax  == 256
DevMax  == 32
FuncMax == 8

NoDevice == 65535

(* PCI_GET_CONFIG_ADDR and the offset in it, without bit 31, which is      *)
(* always set.                                                             *)
ConfigAddrSwapped(bus, dev, func, offset) ==
  bus * 65536 + func * 2048 + dev * 256 + (offset - (offset % 4))
ConfigAddr(bus, dev, func, offset) ==
  bus * 65536 + dev * 2048 + func * 256 + (offset - (offset % 4))

(* The register the host bridge takes from such a number; one that no      *)
(* device answers for has all bits set.                                    *)
Register(addr) ==
  <<addr \div 65536, (addr \div 2048) % 32, (addr \div 256) % 8, (addr % 256) \div 4>>

In(space, addr) ==
  IF Register(addr) \in DOMAIN space THEN space[Register(addr)] ELSE <<255, 255, 255, 255>>

Word(low, high) == low + 256 * high

(* What the PCI standard says of a configuration space: its registers have *)
(* their places; a function has those that the kernel reads; and no vendor *)
(* has the number of none.                                                 *)
Byte     == 0 .. 255
RegPlace == (0 .. BusMax - 1) \X (0 .. DevMax - 1) \X (0 .. FuncMax - 1) \X (0 .. 63)

ConfigSpace(space) ==
  /\ DOMAIN space \subseteq RegPlace
  /\ \A r \in DOMAIN space :
       /\ space[r] \in Byte \X Byte \X Byte \X Byte
       /\ \A n \in {0, 9} : <<r[1], r[2], r[3], n>> \in DOMAIN space
       /\ r[4] = 0 => space[r][1] # 255 \/ space[r][2] # 255

(* pciConfigReadWord and ReadWord: the half of the register that the       *)
(* offset is in, which is even, and the whole register.                    *)
ReadHalf(space, bus, dev, func, offset) ==
  LET bytes == In(space, ConfigAddr(bus, dev, func, offset))
  IN  Word(bytes[(offset % 4) + 1], bytes[(offset % 4) + 2])
ReadWord(space, bus, dev, func, offset) == In(space, ConfigAddr(bus, dev, func, offset))

(* Vendor, device and a base address, which pci_get_ven, pci_get_dev and   *)
(* pci_get_bar read in the same way.                                       *)
Ven(space, bus, dev, func) == ReadHalf(space, bus, dev, func, 0)
Dev(space, bus, dev, func) == ReadHalf(space, bus, dev, func, 2)
Bar(space, bus, dev, func, bar) == ReadWord(space, bus, dev, func, bar)
=============================================================================
