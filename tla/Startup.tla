------------------------------ MODULE Startup -------------------------------
(***************************************************************************)
(* What the kernel learns about the machine before it sets interrupts up:  *)
(* the memory map in the multiboot information, which the second loader    *)
(* (p16/sbl.asm) or another one has written and parse_multiboot (P/main.c) *)
(* walks through, and the processors in the BIOS's MP tables, which        *)
(* mp_init (P/mp.c) looks for and reads.                                   *)
(*                                                                         *)
(* The second loader stores 16 of the 32 bits of a field; the upper half   *)
(* is what memory holds there, or what the first loader (p16/fbl.asm) let  *)
(* the BIOS write: junk is the set of the fields where it is not zero.     *)
(* The loop that loads the kernel is modelled as far as it is defined.     *)
(*                                                                         *)
(* Faulty variants, which nothing uses, stand in front of their            *)
(* definitions: NotRounded, FullAtMax.                                     *)
(***************************************************************************)
EXTENDS Str, SequencesExt

CONSTANTS
  Desc,       \* the descriptors of memory areas a BIOS may report
  MaxDesc,    \* bound: how many it reports
  OtherInfo,  \* the information of other loaders: [table, descs]
  MinSecs,    \* the fewest sectors of a track that fbl supports: 8
  Geometry,   \* disks: [secs, large]
  Machine,    \* the BIOS's tables: [areas, conf]
  MaxCpu      \* SYS_MAX_CPU

Field == {"type", "size", "entry_size", "end"}

VARIABLES
  at,       \* what runs: a stage of a loader or of main, "stuck", or "wild"
  disk,     \* the disk the loader comes from
  junk,     \* fields whose upper half is not zero
  table,    \* the multiboot information: a set of tags
  descs,    \* what the BIOS has reported so far
  reads,    \* sectors of the kernel read
  handed,   \* how main is handed the information: main's magic and addr
  seen,     \* the descriptors parse_multiboot has seen
  machine,  \* the machine's MP tables
  area,     \* the area mp_search is in
  fps,      \* the floating pointer structure found, or none: a set
  i, p,     \* mp_init's loop: entries done, and the next one
  cpus      \* cpus.cpu, up to cpus.ncpu

loading == <<disk, junk, table, descs, reads, handed>>
mp      == <<machine, area, fps, i, p, cpus>>
vars    == <<at, loading, seen, mp>>

Garbage == "garbage"
Upper   == 65536

(* A tag of the information: its place, type and size, and for a memory    *)
(* map the size of an entry and the entries.                               *)
Tag(offset, type, size, entry, entries) ==
  [offset |-> offset, type |-> type, size |-> size, entry |-> entry, entries |-> entries]

END  == 0
MMAP == 6
BasicSize == 8
EntrySize == 24

(* The distance of tags: parse_multiboot. *)
NotRounded(n) == n
Rounded(n) == ((n + 7) \div 8) * 8

(* Another loader keeps to the Multiboot specification: a tag begins at    *)
(* the next multiple of eight behind the one before it; one is the memory  *)
(* map, and the end tag is the last.                                       *)
WellFormed(info) ==
  LET n == Cardinality(info.table) IN
  /\ IsFiniteSet(info.table)
  /\ \E tags \in [1 .. n -> info.table] : \E m \in 1 .. n - 1 :
       /\ info.table = {tags[k] : k \in 1 .. n}
       /\ \A k \in 1 .. n : /\ tags[k].offset \in Nat /\ tags[k].offset % 8 = 0
                           /\ tags[k].size \in Nat \ {0}
       /\ tags[1].offset = BasicSize
       /\ \A k \in 1 .. n - 1 :
            /\ tags[k].type \in 1 .. 21
            /\ tags[k].type = MMAP <=> k = m
            /\ tags[k + 1].offset - (tags[k].offset + tags[k].size) \in 0 .. 7
       /\ tags[m].entry = EntrySize /\ tags[m].entries = info.descs
       /\ tags[m].size = 16 + EntrySize * Len(info.descs)
       /\ tags[n].type = END

(* A place of the areas and an entry of the configuration: see mp_init.    *)
Place == [text : Seq(Nat \ {0}), units : Nat, sum : 0 .. 255, phys : BOOLEAN, info2 : BOOLEAN]
Entry == [type : STRING, id : Nat]

(* The loader computes the size of the memory map in 16 bits.              *)
ASSUME StartupAssumption ==
  /\ Garbage \notin Desc
  /\ MaxDesc \in Nat \ {0} /\ MaxCpu \in Nat \ {0}
  /\ 16 + EntrySize * MaxDesc < Upper
  /\ \A g \in Geometry : g.secs \in Nat /\ g.large \in BOOLEAN
  /\ \A info \in OtherInfo : info.descs \in Seq(Desc) /\ WellFormed(info)
  /\ Machine # {}
  /\ \A m \in Machine : /\ m.areas \in [1 .. 3 -> Seq(Place)]
                       /\ m.conf.text \in Seq(Nat \ {0}) /\ m.conf.entries \in Seq(Entry)

(* Either the machine has just read the first loader, or another loader    *)
(* has left its information; what a start does not come to is any value.   *)
Init ==
  /\ \/ /\ at = "fbl" /\ table = {} /\ descs = <<>>
        /\ disk \in Geometry
        /\ junk \in SUBSET Field
        /\ handed = "ok"
        /\ machine = CHOOSE m \in Machine : TRUE
     \/ /\ at = "main"
        /\ \E info \in OtherInfo : table = info.table /\ descs = info.descs
        /\ disk = CHOOSE g \in Geometry : TRUE
        /\ junk = {}
        /\ handed \in {"ok", "no magic", "unaligned"}
        /\ machine \in Machine
  /\ reads = 0
  /\ seen = <<>>
  /\ area = 1 /\ fps = {} /\ i = 0 /\ p = 1 /\ cpus = <<>>

Goto(next) == at' = next

-----------------------------------------------------------------------------
(* The loaders *)

(* _disk_get_infos: an error, or too few sectors, and it loops for ever.   *)
DiskInfos ==
  /\ at = "fbl"
  /\ \/ disk.secs >= MinSecs /\ Goto("ext")
     \/ Goto("stuck")
  /\ UNCHANGED <<loading, seen, mp>>

(* _disk_get_ext_infos: where the BIOS has this function it writes the     *)
(* drive's parameters where the information will be; of the upper halves   *)
(* it leaves one of the number of sectors in entry_size.                   *)
DiskExtInfos ==
  /\ at = "ext"
  /\ Goto("read")
  /\ \/ UNCHANGED junk
     \/ junk' = (junk \ {"type", "size", "entry_size"})
                  \cup (IF disk.large THEN {"entry_size"} ELSE {})
  /\ UNCHANGED <<disk, table, descs, reads, handed, seen, mp>>

(* _disk_read of the second loader *)
DiskRead ==
  /\ at = "read"
  /\ \/ Goto("mm") \/ Goto("stuck")
  /\ UNCHANGED <<loading, seen, mp>>

High(field) == IF field \in junk THEN Upper ELSE 0

(* _mb_detect_mm: one descriptor from the BIOS, or an error; size and      *)
(* total_size grow with the map.                                           *)
Detect(desc) ==
  /\ at = "mm"
  /\ Len(descs) < MaxDesc
  /\ descs' = Append(descs, desc)
  /\ \/ Len(descs') < MaxDesc /\ UNCHANGED at
     \/ Goto("end")
  /\ UNCHANGED <<disk, junk, table, reads, handed, seen, mp>>

DetectFails ==
  /\ at = "mm" /\ Goto("stuck")
  /\ UNCHANGED <<loading, seen, mp>>

(* _mb_end: the end tag comes after the map. *)
MapSize == 16 + EntrySize * Len(descs)

OwnTable ==
  {Tag(BasicSize, MMAP + High("type"), MapSize + High("size"),
       EntrySize + High("entry_size"), descs),
   Tag(BasicSize + MapSize, END + High("end"), BasicSize, 0, <<>>)}

EndTag ==
  /\ at = "end"
  /\ table' = OwnTable
  /\ Goto("load")
  /\ UNCHANGED <<disk, junk, descs, reads, handed, seen, mp>>

(* _disk_loop: the first sector is read into the buffer and copied.  It    *)
(* leaves ES zero, so that the second one is read over the interrupt       *)
(* vectors, and the BIOS cannot be called a third time.                    *)
Load ==
  /\ at = "load"
  /\ \/ reads < 2 /\ reads' = reads + 1 /\ UNCHANGED at
     \/ reads < 2 /\ Goto("stuck") /\ UNCHANGED reads
     \/ reads = 2 /\ Goto("wild") /\ UNCHANGED reads
  /\ UNCHANGED <<disk, junk, table, descs, handed, seen, mp>>

-----------------------------------------------------------------------------
(* parse_multiboot *)

(* The loop over the entries: the k-th begins entry bytes after the one    *)
(* before it, and is one of the map's only if that is their distance.      *)
Entries(tag) ==
  LET count == (tag.size - 16 + tag.entry - 1) \div tag.entry
      InPlace(k) == k = 1 \/ (tag.entry = EntrySize /\ k \in DOMAIN tag.entries)
  IN  [k \in 1 .. count |-> IF InPlace(k) THEN tag.entries[k] ELSE Garbage]

(* The walk over the tags: what it returns, and the entries on its way.    *)
Walk(info) ==
  LET walk[q \in Nat] ==
        LET here == {tag \in info : tag.offset = q}
            tag  == CHOOSE t \in here : TRUE
            rest == walk[q + Rounded(tag.size)]
        IN  CASE here = {}               -> [ret |-> Garbage, seen |-> <<Garbage>>]
              [] here # {} /\ tag.type = END   -> [ret |-> 0, seen |-> <<>>]
              [] here # {} /\ tag.type = MMAP  -> [rest EXCEPT !.seen = Entries(tag) \o @]
              [] here # {} /\ tag.type > 21    -> [ret |-> -5, seen |-> <<>>]
              [] here # {} /\ tag.type \notin {END, MMAP} /\ tag.type <= 21 -> rest
  IN  walk[BasicSize]

(* The magic of another kind of loader and an address that is not a        *)
(* multiple of eight are refused; main ignores what is returned.           *)
Parsed ==
  CASE handed = "no magic"  -> [ret |-> -1, seen |-> <<>>]
    [] handed = "unaligned" -> [ret |-> -2, seen |-> <<>>]
    [] handed = "ok"        -> Walk(table)

ParseMultiboot ==
  /\ at = "main"
  /\ seen' = Parsed.seen
  /\ Goto("mp_search")
  /\ UNCHANGED <<loading, mp>>

-----------------------------------------------------------------------------
(* mp_init.  An area is a sequence of 16-byte places: the characters at    *)
(* its beginning, the length in it, the sum of its bytes, whether it       *)
(* points to a configuration, and its info2.                               *)

SumOf(places, from, n) ==
  FoldLeft(LAMBDA sum, place : (sum + place.sum) % 256, 0,
           SubSeq(places, from, Min({from + n - 1, Len(places)})))

FpsSig == <<95, 77, 80, 95>>
ConfSig == <<80, 67, 77, 80>>

(* mp_validate, of a floating pointer structure and of a configuration *)
FpsValid(places, k) ==
  /\ Strcmp(places[k].text, FpsSig) = 0
  /\ SumOf(places, k, places[k].units) = 0
ConfValid(conf) == Strcmp(conf.text, ConfSig) = 0 /\ conf.sum = 0

(* mp_search: the first valid structure of the extended BIOS data area, of *)
(* the end of base memory, of the ROM.                                     *)
MpParse ==
  LET places == machine.areas[area]
      valid  == {k \in DOMAIN places : FpsValid(places, k)}
  IN
  /\ at = "mp_search"
  /\ IF valid # {} THEN fps' = {places[Min(valid)]} ELSE fps' = {}
  /\ IF valid # {} \/ area = 3
     THEN Goto("mp_config") /\ UNCHANGED area
     ELSE area' = area + 1 /\ UNCHANGED at
  /\ UNCHANGED <<loading, seen, machine, i, p, cpus>>

(* mp_config: without a configuration mp_init only says so, and goes on    *)
(* with a null pointer.                                                    *)
MpConfig ==
  /\ at = "mp_config"
  /\ IF (\E f \in fps : f.phys) /\ ConfValid(machine.conf)
     THEN Goto("mp_init") ELSE Goto("wild")
  /\ UNCHANGED <<loading, seen, mp>>

EntryHere == machine.conf.entries[p]

MoreEntries == at = "mp_init" /\ i < Len(machine.conf.entries)

FullAtMax == Len(cpus) >= MaxCpu - 1
Full == Len(cpus) >= MaxCpu

MpProcessor ==
  /\ MoreEntries /\ EntryHere.type = "proc"
  /\ cpus' = IF Full THEN cpus ELSE Append(cpus, EntryHere.id)
  /\ i' = i + 1 /\ p' = p + 1
  /\ UNCHANGED <<at, loading, seen, machine, area, fps>>

(* The types that are stepped over.  The address of the I/O APIC's entry   *)
(* is kept, but nothing reads it.                                          *)
SteppedOver == {"bus", "ioapic", "iointr", "localintr"}

MpOther ==
  /\ MoreEntries /\ EntryHere.type \in SteppedOver
  /\ i' = i + 1 /\ p' = p + 1
  /\ UNCHANGED <<at, loading, seen, machine, area, fps, cpus>>

(* An entry of any other type is noted and not stepped over: from here on  *)
(* every round of the loop looks at the same entry.                        *)
MpUnknown ==
  /\ MoreEntries /\ EntryHere.type \notin SteppedOver \cup {"proc"}
  /\ i' = i + 1
  /\ UNCHANGED <<at, loading, seen, machine, area, fps, p, cpus>>

(* Where there is an IMCR, external interrupts are taken from the          *)
(* interrupt controller, which the rest of main is about to set up.        *)
MpDone ==
  /\ at = "mp_init" /\ i = Len(machine.conf.entries)
  /\ \E f \in fps : Goto(IF f.info2 THEN "apic" ELSE "pic")
  /\ UNCHANGED <<loading, seen, mp>>

Next ==
  \/ DiskInfos \/ DiskExtInfos \/ DiskRead
  \/ \E desc \in Desc : Detect(desc)
  \/ DetectFails \/ EndTag \/ Load
  \/ ParseMultiboot
  \/ MpParse \/ MpConfig \/ MpProcessor \/ MpOther \/ MpUnknown
  \/ MpDone

Spec == Init /\ [][Next]_vars

-----------------------------------------------------------------------------
(* Properties *)

Types ==
  /\ at \in {"fbl", "ext", "read", "mm", "end", "load", "stuck", "wild", "main",
             "mp_search", "mp_config", "mp_init", "apic", "pic"}
  /\ junk \subseteq Field /\ reads \in 0 .. 2 /\ handed \in {"ok", "no magic", "unaligned"}
  /\ area \in 1 .. 3 /\ Len(cpus) <= MaxCpu

(* What parse_multiboot reads of the second loader's information: of clean *)
(* memory the very descriptors of the BIOS, in their order.  A map whose   *)
(* type has an upper half is not seen; one whose size has is followed by   *)
(* what is not its own; and of one whose entries' size has only the first  *)
(* descriptor is seen, which is what every large disk leads to             *)
(* (_mb_detect_mm, _disk_get_ext_infos, parse_multiboot).                  *)
OwnMapSeen ==
  at = "load" =>
    LET walk == Walk(table) IN
    /\ junk = {} => walk.ret = 0
    /\ CASE "type" \in junk -> walk.seen = <<>>
         [] "type" \notin junk /\ "size" \in junk ->
              \E k \in DOMAIN walk.seen : walk.seen[k] \notin Desc
         [] {"type", "size"} \cap junk = {} ->
              walk.seen = IF "entry_size" \in junk THEN <<descs[1]>> ELSE descs

(* Of another loader's information, handed over as the specification says, *)
(* all descriptors, whatever tags of whatever sizes are before and behind  *)
(* the map; and nothing of any that is not.                                *)
MapSeen ==
  /\ Types /\ OwnMapSeen
  /\ at = "mp_search" => seen = IF handed = "ok" THEN descs ELSE <<>>

(* A floating pointer structure as the specification of MP tables has it.  *)
Genuine(places, k) ==
  /\ IsPrefix(FpsSig, places[k].text)
  /\ places[k].units = 1 /\ places[k].sum = 0 /\ places[k].phys

(* No other place that the comparison and the sum accept. *)
NoDecoys ==
  \A a \in 1 .. 3 : \A k \in DOMAIN machine.areas[a] :
    FpsValid(machine.areas[a], k) => Genuine(machine.areas[a], k)

GenuineSomewhere ==
  \E a \in 1 .. 3 : \E k \in DOMAIN machine.areas[a] : Genuine(machine.areas[a], k)

(* The entries that are processors, with only entries of types that        *)
(* mp_init knows in front of them, and how many there are up to the k-th.  *)
Known(k) == machine.conf.entries[k].type \in SteppedOver \cup {"proc"}
Processors ==
  {k \in DOMAIN machine.conf.entries :
     machine.conf.entries[k].type = "proc" /\ \A j \in 1 .. k : Known(j)}
Rank(k) == Cardinality({j \in Processors : j <= k})

(* The kernel knows, in their order, the processors in front of the first  *)
(* entry of a type that mp_init does not know, as many as it has room for, *)
(* and no other.  It misses the tables only if the machine has none, or if *)
(* some place only looks like one to strcmp, which is content with the     *)
(* beginning of the signature (mp_search, mp_init).                        *)
CpusFound ==
  /\ at \in {"apic", "pic"} =>
       /\ Len(cpus) = Min({Cardinality(Processors), MaxCpu})
       /\ \A k \in Processors : Rank(k) <= MaxCpu => cpus[Rank(k)] = machine.conf.entries[k].id
  /\ at = "wild" /\ reads = 0 /\ NoDecoys =>
       ~(GenuineSomewhere /\ machine.conf.sum = 0 /\ machine.conf.text = ConfSig)
=============================================================================
