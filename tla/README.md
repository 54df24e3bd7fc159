# Yohda-OS in TLA+

Yohda-OS is a small 32-bit x86 kernel in C and assembly. This directory holds
TLA+ models of its subsystems, TLC configurations that check them on small
instances, and TLAPS proofs of the properties that matter most.

## 1. The system

Paths are relative to the repository. `P` stands for `archtecture/x86/p32`.
`mm/`, `block/` and the root hold the shared sources; `P` and
`archtecture/x86/p64` hold copies of some of them (`mm/buddy64.c`, `P/buddy.c`,
`P/pool.c`, `P/mmi.c`, `P/list.c`, ...). We model the shared source, except for
parts that only `P` has (scheduler, processes, interrupts, console) and for
the list, whose two versions differ.

| Component | State | Operations | Interacts with |
|---|---|---|---|
| Buddy page allocator (`mm/buddy.c`, `bitmap.c`) | a bitmap per order, free counters, one header byte per 2 KB leaf | `_bud_init`, `_bud_alloc`, `_bud_free` | called by the lazy cache and by `yalloc`/`yfree` |
| Lazy page cache (`bud_lazy_alloc`, `bud_lazy_free`) | two lists of page records, their lengths, batch and watermark | `bud_alloc`/`bud_free` of at most a page | refills from and drains to the buddy allocator |
| Pool allocator (`mm/pool.c`) | per size class a region, a head pointer, a counter; a next-pointer in front of every block | `pl_init`, `pl_alloc`, `pl_free` | lives in one block of the buddy allocator |
| Memory interface (`mm/mmi.c`, `mm/mm.c`) | bases and sizes of both allocators | `mmi_init`, `yalloc`, `yfree` | chooses the allocator by size, on free by address |
| List (`list.c`, `P/list.c`) | circular doubly linked list | add, add_head, del, get | lazy cache, scheduler, FAT |
| Processes and scheduler (`P/proc.c`, `P/sched.c`, `P/task.asm`) | process table, ready and block lists, counters, current process | create, sched, yield (exit, sleep and timer have no caller) | the timer interrupt, the list |
| Timer (`P/pit.c`) | tick counter, ticks per second | interrupt handler, `msleep` | PIC |
| Interrupt table and PIC (`P/interrupt.c`, `P/pic.c`, `P/asm/isr.asm`) | gates, masks, in-service bits | initialise, register, mask, end of interrupt | keyboard, timer |
| Console (`P/vga.c`, `P/io.c`, `P/keyboard.c`) | screen buffer, cursor, `kprintf`'s parse pointer | `kprintf`, keyboard handler | called from processes and from handlers |
| AHCI driver (`block/ahci.c`) | port registers, command list and tables | rebase, read, write | the disk controller, which runs concurrently |
| FAT (`fs/fat.c`) | cluster bitmap, directory list and tree | init, create, sync, change directory | AHCI, allocators |
| Strings, mathematics, search tree (`string.c`, `math.c`, `bstree.c`) | `strtok`'s position; the tree's links | search, split, compare, copy; `log`, `power`; insert, search | allocators, FAT, start-up |
| Boot loaders (`archtecture/x86/p16`) | disk parameters, memory map, multiboot information | BIOS calls, reading the kernel | hand the information to `main` |
| Start-up (`P/main.c`, `P/mp.c`) | memory map, table of processors | `parse_multiboot`, `mp_init` | read what loader and BIOS left |
| PCI bus (`P/pci.c`) | the devices' configuration spaces, which the kernel only reads | reading a register; `pci_init`'s enumeration keeps nothing, and its call is commented out (`P/main.c:132`) | the driver looks for its controller in the same way |
| Paging, ATA, stack, ARM | | | |

### What is hard in it

Few parts are concurrent: one processor, no preemption by the timer (the call
is commented out in `P/pit.c:46`), but interrupt handlers that print run at any
point of a process's `kprintf`, and the disk controller runs beside the
driver's polling loops. The rest of the difficulty is in long sequences of
calls on redundant data structures: bitmaps of several orders that must agree,
headers read long after they were written, counters kept incrementally, lists
whose nodes live in freed memory, and error paths that report and go on
(`err_dbg` without `return`). `PROJECT.json` lists the hazards at their lines.

### What makes each part correct

| Component | Promise | Where it is stated |
|---|---|---|
| Buddy allocator | live blocks are disjoint; the bitmap of each order says exactly which blocks overlap a live one, so all that was freed can be used again and has merged; the header read at a free is the one written at the allocation; the counters count | `Heap`, `Buddy` |
| Lazy cache | each leaf taken from the buddy allocator is accounted for | `Lazy` |
| Memory interface | page cache, larger blocks and pool together are one heap | `Heap`, `Mmi` |
| Pool | blocks of all classes disjoint and inside their regions; the chain of free blocks in the headers is exact; a free finds the right class; all of it until a class is asked for more blocks than it has | `Heap`, `Pool` |
| List | a deque | `Deque`, `List` |
| Scheduler, timer | list, counter and states agree; processes take turns; `msleep` is long enough, also when the counter goes round | `RoundRobin`, `Sched` |
| Interrupts | no line that has a driver meets a handler that hangs; each end of interrupt ends the interrupt of the handler that sends it; no tick is lost; keys are printed once, in order, all of them | `Irq` |
| Console | the screen is the tail of what was printed; what `kprintf` prints is its arguments, unless a key comes between | `Terminal`, `Console`, `Kprintf` |
| AHCI | a block device; nothing moves after a call returned; the tables the device reads stay put; the calls return | `BlockDevice`, `Ahci` |
| PCI bus | the controller the driver uses is the first on the bus | `Pci`, `Ahci` |
| FAT | what was synced is found at the next mount, by list and by tree; clusters are not shared; nothing is written outside the clusters; the counter is exact | `Fat` |
| Start-up | the memory map main sees is the BIOS's, where no upper half of a field is junk; the processors found are those of the tables, up to the first entry of a type the kernel does not know | `Startup` |

## 2. Plan

Modules, in the order in which they were written, with what composes what:

1. `Heap` (abstract), `Buddy`, `BuddyProofs`; `BudLayout` for the metadata.
2. `Pool` against the same `Heap`, with `PoolLayout` and `Arith`.
3. `Links`, `List`, `Deque`.
4. `Pci`; `Ahci`, which looks for its controller with it, with `BlockDevice`.
5. `Sched`, which uses `Links` itself and not an abstract queue, with `RoundRobin`.
6. `Lazy` in `Buddy`'s order; `Mmi` composes it with the pool's blocks.
7. `Str`, `Bst`; `Fat`, which uses both, over a disk that keeps what was synced.
8. `Irq`: start-up and handlers.
9. `Console` with `Terminal`; `Kprintf` composes it with the keyboard's handler.
10. `Startup` over `Str`: loader, memory map, MP tables.
11. Proofs: `BuddyProofs`, `QueueProofs` (`List` and `Sched`, with the lemmas on
    `list.c` that both rest on), `IrqProofs`, `PoolProofs`, `AhciProofs`, `MmiProofs`,
    `StartupProofs`, `FoldProofs` (`Fat` and `Kprintf` with its `Console`, with the
    lemmas on the folds of the community modules that both rest on).

All of them are done. Left in the models: the ATA commands if the kernel comes
to use them, directories other than the root once the code initialises their
lists, and the scheduler's uncalled half once something calls it. Every invariant and
every refinement that a run checks is also proved; section 6 says what is not.

## 3. The modules

Every module begins with a comment that says what it models and what it leaves
out. `PROJECT.json` maps each definition to its lines. In all modules a call
is one step unless something can happen in the middle of it: `Ahci` has a step
for each access to a register or a table that the other side can see, `Irq` one
for each statement between which an interrupt matters, `Sched` one for each
point at which the processor changes hands or the clock is read.

Definitions such as `TakenWithoutParents` or `DoneAtOnce` stand in front of the
definition they are a faulty variant of. No specification uses them; with one
of them in place of the right one, a property of the module's run fails
(`PROJECT.json`, `mutants`). They show that the properties see such faults.

**`Heap`** is what callers of an allocator rely on: a request gets a free block
of those that may serve it, and is refused only when none is free. `Buddy`,
`Pool` and `Mmi` each implement it, with their own units and candidates.

**`Buddy`** (`mm/buddy.c`, `bitmap.c`). `bmp` is the set of the bits that are 1
in the bitmaps, which lie back to back: `Bit` says where a block's bit is, also
when its number is past its own order's bitmap. `frees` are the counters,
`hdr` the header bytes, `live` the blocks that callers hold. `Alloc`,
`AllocFails` and `AllocTooLarge` are the ways through `_bud_alloc` (served, no
free block in the order, no order), `Free` is `_bud_free`; `Climbed`, `Taken`,
`Merged` and `Released` are the recursions of `bud_chk_parent` and
`bud_chk_childs`, as the set of bits they reach. Callers free what they hold,
once; the code does not check it.

**`Pool`** (`mm/pool.c`). `mem` holds the headers and the callers' data, so that
a header in the wrong place is overwritten by `Write`; `head` and `frees` are
the fields of each pool. `pl_alloc` does not compare the head with the end of the
region, although `include/mm/pool.h:12` says the size is kept for that, so a class
with no block left answers the next request with the block behind its region: the
next class's first, or nobody's. The model has that request. What follows once the
caller writes there is not defined, so behaviours end with it (`Overrun`), and
`Disjoint`, `FreesExact` and `ImplementsHeap` say what holds up to there and what is
wrong then: the block is the one behind the region, the counter goes round to its
largest value, and the heap would have refused. `MCPool` computes capacities
and bases with `pool_calc_size`'s loop, and for the sizes `mmi_init` uses in the
kernel it checks that the regions end inside the block they are laid out in
(`KernelPoolFits`).

**`Links`, `List`, `Deque`** (`P/list.c`). `Links` has the list operations as
assignments to the `next` and `prev` fields, in their order; `List` uses them
under the callers' contract, that a node is added only when it is in no list.
`list_get` of the root's `list.c` differs from `P/list.c`, which the kernel is
built from and which is modelled. `GetAsInRoot` is the other one: with it the list
is no deque (`PROJECT.json`, `mutants`).

**`Pci`** (`P/pci.c`, `include/bus/pci.h`, and the driver's own copy of it in
`block/ahci.c`) is operators over a configuration space: the number that names a
register (`ConfigAddr`), which register the host bridge takes from it
(`Register`), and what the shifts and masks leave of its bytes (`ReadHalf`,
`ReadWord`, from which `Ven`, `Dev` and `Bar` read). `pci_init`'s enumeration is left
out: `main` has its call commented out, and `pci_enum_dev` fills records that it
links to nothing, so no state depends on it. `ConfigSpace` is what the PCI standard
says of the registers of a bus, and what the theorems assume of it.

**`Ahci`** (`block/ahci.c`) begins with `ahci_init`: `find_ahci_device` goes through
the bus (`Machine` is what may be on it, with its ports), each port with a SATA
drive is rebased and read once, and the last one serves the calls. (Without one,
calls go to port 0, which was never prepared; the machines of the model have a drive
if they have a controller.) It has two processes: `Driver`, whose `pc` names the
place in `ahci_port_rebase`, `_ahci_read` or `_ahci_write`, and `Controller`, whose
engines for commands and for FISes start and stop each in its own time
(`EngineCommand`, `EngineFis`), and which fetches commands from `PxCI`, transfers
sector by sector, completes or fails. `MaxFaults` bounds failing commands and hung
ports. **`BlockDevice`** is what a caller expects until something fails, and how far
the damage of a failure may go.

**`Sched`** (`P/proc.c`, `P/sched.c`, `P/pit.c`, `P/main.c`). `cpu` is whose
context is on the processor; `Create`, `Dispatch`, `Msleep`, `Wake`, `Yield` and
`Tick` are the steps. The loop of `_sched` that finds `readys` at 0 spins;
`Dispatch` is then disabled. Nothing calls `sched_sleep`, `sched_exit` and
`sched_timer`; they are left out. (`sched_sleep`, whose comment says it waits
for an event, puts the caller into the block list and returns to it.)

**`BudLayout`** (`mm/buddy.c`) measures the metadata twice as `_bud_init` does,
first for the whole memory and then for the heap that is left. `MCBuddy` checks,
for 1200 sizes from `MM_HEAP_MIN_SIZE` on and three large ones, that the heap
ends inside the memory (`LayoutFits`), and that the 512 MB `main` asks for make
a geometry the theorems of section 6 are about (`KernelHeapIsRegular`).

**`Lazy`** (`bud_lazy_alloc`, `bud_lazy_free`, `bud_alloc`, `bud_free`). The
buddy allocator below is its abstract heap with the lowest block first.
`records` and `lost` name what the code forgets: the leaf that each refill uses
for its records, and the one it refuses. That nothing ever gives them back is
part of the model and of `Accounted`, not an error of the model. `Ascending` puts
the free leaves in the order in which one allocation after the other gets them:
the i-th is the one with i - 1 smaller ones.

**`Mmi`** (`mm/mmi.c`, `mm_where_is_addr`) is `yalloc` and `yfree`. It extends
`Lazy` and takes the pool as the heap `Pool` is shown to be as long as no class is
asked for more than it has;
`Yfree` chooses the allocator by `Sec`, the addresses of the pool's block; `RoundUp`
is the shortest of the `Lengths` of blocks that is enough, which is where the loop
of `bud_rndup` stops.
`AllocNoClass` is a size between the pool's largest and a page: `pl_alloc`
answers -1 and the caller gets -1 as an address (the tests ask for such sizes,
`test.c:595`). `MCMmi.cfg` does not check deadlock: a call that meets an
exhausted heap is left out, so the model really may stop.

**`PoolLayout`, `Arith`** (`pl_init`, `math.c`) compute capacities and bases for
`MCPool` and `MCMmi`; `LogInvertsPower` checks `log` against `power`.

**`Str`, `Bst`** (`string.c`, `bstree.c`) are operators. Two facts matter above:
`strcmp` calls a string equal to each of its beginnings, and `strncpy` does not
copy the terminator. `strtok`'s static variables are the record `StrtokNext`
takes and returns; `TokensSplit` checks that the tokens are the string's pieces.

**`Fat`** (`fs/fat.c`) has the regions of the disk, mounting, creating
directories in the root, writing back, changing the current directory, and the
machine stopping at any time. Names are cut into pieces and put together again
as the code does it, with its terminators and padding, the short name of an
entry included (`ShortName`, `Sfn`); the tree is made at the
mount and `fat_set_dir` finds in it what was there then. Names may be the root
directory's own, or empty, which a path that ends in a slash makes them. Limits:

- A bitmap of one word (`FatAssumption`): `bitmap_alloc` clears no other.
- One sector per cluster (`OneSector`). With more, `fat_init_rootfs` writes its
  system entry over the root directory's first sector (`fs/fat.c:1289`), and
  clusters overlap, because a cluster's number is used as that of its sector.
- Names that fit the buffers of 256 bytes they are copied to (`NamesFit`). The
  code compares no length with them.
- `fat_sync` writes one cluster, whatever it has collected (`FirstCluster`), and
  `fat_parse_dir` looks for a zero behind the last entry; a directory that fills its
  cluster has none there, and the model does not mount it (`Unended`).
- `fat_sync` is not called with more entries than its buffer of four clusters
  holds, for a file that got no cluster, or for one without a name, for which
  `fat_crt_lfn` writes in front of its array.
- At most `MaxFiles` files.
- The nodes of `fat_parse_dir` lie in its own stack frame and are taken to survive.

`fat_crt_file` and calls in other directories are left out, because what they
leave behind depends on such nodes or on lists nobody initialised. A directory
created since the mount is not in the tree: `fat_set_dir` then makes an address
computed from `NULL` the current directory (`Wild`), and the model stops
following it there.

**`Irq`** (`P/main.c`, `P/pit.c`, `P/keyboard.c`, `P/pic.c`, `P/interrupt.c`,
`P/isr.asm`). `Startup` takes the calls of `main` in their order: the controllers
are programmed over requests that may be pending, gates are set, lines unmasked,
`sti`. `stack` holds the handlers that run, each with the statement it is at and the
value it has read and not yet used; `irr` and `isr` are the interrupt controller's
registers. The gates are trap gates (attribute `0x8F`), so any statement may be
interrupted by what the controller lets through. A device without a driver may
request at any time (`OtherRises`); its handler does not return, and the timer and
the keyboard still interrupt it. It is let in only while two more handlers fit into
the bound `MaxDepth`; the NMI ends in one that hangs with interrupts disabled
(`halted`). The stubs push the vector (32, 33), not the line, so `pic_eoi` also
sends an end of interrupt to the second controller, which has nothing in service; it
is left out. `pit_init` does not unmask its line: the timer runs because the
loader's masks let it.

**`Console`** (`P/vga.c`) is the buffer, the cursor and the place the last flush
got to. `Written` is `_vga_text_write`'s loop, `Updated` and `Scrolled` the two
halves of `_vt_flush`. A character that meets a full line is dropped with the
line's end, in the code and therefore in **`Terminal`** too. Colours are left
out. Callers print up to row `LastRow`: behind the buffer the code notes
"Screen Buffer Overflow", a line late, and writes on.

**`Kprintf`** (`P/io.c`, `P/stdlib.c`) reads a format character by character;
choosing the conversion in the static pointer `parse` and calling it are two
steps, and the keyboard's handler prints with the same function between any
two. The handler leaves its own conversion in `parse`, so an interrupted
conversion may come out as a character; `Printed` says that this is all that
happens. `ItoaExact` checks `itoa` against the decimal, and other, numerals. What
a call and a key may print ends before the buffer does (`KprintfAssumption`): a
call and a key begin in row `LastRow` at most, and a character ends a line at
most.

**`Startup`** (`P/main.c`, `P/mp.c`, `p16/*.asm`) is what the kernel learns of
the machine: the loaders' BIOS calls with every error that stops them, the
multiboot information as they build it (16 of the 32 bits of a field, so the
rest is what memory held) or as another loader does, `parse_multiboot`'s walk,
and the search for the MP tables with the entries behind them. `handed` says whether
`main` got the loader's magic number and an aligned address; otherwise
`parse_multiboot` returns and nothing is seen. Of the second loader's own map
`OwnMapSeen` says exactly what the walk sees for each field whose upper half is
junk: with one in the tag's type nothing; with one in its size something that
is not the map's; with one in the size of its entries only the first descriptor.
The last is what a disk of 65536 sectors (32 MB) or more leads to where the BIOS
has the extended read: `fbl.asm:123` has it write the disk's size where `sbl.asm`
puts the tag. An entry of the MP tables of a type `mp_init` does not know is noted
and not stepped over (`mp.c:131`), so the rest of the rounds look at the same entry
(`MpUnknown`) and processors behind it are missed. Where something may
lie in the areas that are searched is a `Place`, what the table
has behind its header an `Entry`. The loop that
loads the kernel is modelled as far as it is defined: the second sector goes
over the interrupt vectors, because `ES` is not set again (`sbl.asm:239`).

## 4. The runs

Bounds are small; the reason why each is enough is that the interesting cases
are all there.

| Run | Question | Bounds, and why |
|---|---|---|
| `buddy` | bitmaps, headers, counters, disjointness, refinement of `Heap` | 7 leaves, 3 orders of 7, 3 and 1 blocks in words of 4 bits: an order over two words, odd numbers of blocks in every order, a last leaf without a sibling, requests for each order and one too large |
| `buddy_full` | is what `_bud_alloc` returns a block? No: it reports "Memory allocation failed" and then returns an address below the heap | the same |
| `pool` | regions, chain, classes, refinement of `Heap` | two classes of two blocks each, from `pool_calc_size`: full and empty classes, each order of frees, and the first request a class has no block for |
| `list` | links, refinement of `Deque` | 4 nodes: first, last, and two neighbours in the middle |
| `ahci` | the right controller, all of the driver's properties, `BlockDevice` | 3 machines: no controller but one that is not a device's first function, one controller behind a bridge, two on different buses; 3 slots of which the code uses 2, entries of 4 sectors, requests of 1 and 4 sectors that overlap in memory and on the disk, 2 calls after the first, one fault: a slot can be reused while a failed command still has it |
| `ahci_long` | does a request of more than one entry do what it should? No | 6 sectors, no fault |
| `sched` | list and counter, turns, sleeping, progress | 4 slots, a clock that counts modulo 8 and starts anywhere, sleeps of 0, 1 and 3: the clock goes round in a sleep, all slots get used |
| `mmi` | accounting, one heap for all sizes | 9 leaves of 4 units, batch 2, watermark 3, larger blocks of 2 and 4 leaves, one leaf that `IS_MEM_ERR` refuses, pool classes of 1 and 2 units, requests around each limit: refill, failed refill, drain, records that eat up the heap, the blocks on both sides of the pool's |
| `fat` | durability, clusters and where they lie, counter, tree | 4 clusters, pieces of 2 characters: names of one piece with and without room for the zero, one the beginning of another; one of five pieces, with which three files fill the 16 slots of the cluster that is written; one behind a slash, one empty behind a slash, and the root's own; up to 4 files, one more than there are clusters for them |
| `irq` | start-up, end of interrupt, ticks, keys | any masks and pending requests at the start, a line without a driver that requests at any time, 3 handlers deep, 2 keys pressed and any number released, ticks modulo 3: the hung handler with the timer's and the keyboard's over it, or two handlers and a third that was interrupted after its end of interrupt |
| `kprintf` | conversions under interrupts, refinement of `Terminal` | a buffer of 4 screens of 2 rows and 2 columns, calls that begin in rows 0 and 1, every conversion, zero and negative numbers, a character zero, texts shorter than, as long as and longer than a line, a key at every step: partial flush, several unflushed calls, scrolling |
| `startup` | memory map, processors | maps of up to 3 entries, each combination of upper halves, BIOS errors at each call, 3 disks, a wrong magic number and an unaligned address, tables and look-alikes in each of the areas searched, processors before and behind an entry of an unknown type: `CHECK_DEADLOCK FALSE`, for the loaders stop on an error and `main` goes on elsewhere |

What the two runs that find a violation show is told in `PROJECT.json`,
`findings`. A further one, seen while modelling `Ahci`: after a task file error
the port is not restarted, so the next call polls `PxCI` forever;
`EveryCallReturns` therefore speaks of calls as long as no fault occurred.

## 5. Fairness

Safety needs none. `Buddy`, `Pool`, `List`, `Mmi`, `Fat`, `Kprintf` and
`Startup` have no liveness property and no fairness.

- `Ahci`: weak fairness of the driver, which nothing preempts, and of the
  controller: a device that does not answer at all is counted as a fault.
- `Sched`: weak fairness of the timer and of each step of whoever has the
  processor, except `Create`, which nobody must call. Strong fairness of
  `Wake`: `msleep`'s condition becomes false again when the clock has gone
  round, but the loop looks at it many times in each of the ticks in between.
- `Irq`: weak fairness of `main`'s start-up, which nothing interrupts before
  `sti`; strong fairness of the handlers' steps at each depth of the stack, and
  of the delivery of the keyboard's interrupt. The timer is programmed for one
  interrupt in about a millisecond (`P/pit.c`) and a handler takes
  microseconds: it is not interrupted before each of its statements for ever,
  nor is the lower line kept out for ever.

## 6. What is proved

Every theorem holds for all values of the constants that the assumptions below
allow; the runs show the same properties on one small instance each, and find out
cheaply what is wrong with an invariant before it is proved.

| Module | Theorem | Property |
|---|---|---|
| `BuddyProofs` | `BookkeepingInv` | the inductive invariant |
| | `TypeCorrect`, `NoOverlapHolds`, `BitmapExactHolds`, `HeadersExactHold`, `FreesExactHolds` | `TypeOK`, `NoOverlap`, `BitmapExact`, `HeadersExact`, `FreesExact` |
| | `RefinesHeap` | `ImplementsHeap` |
| `PoolProofs` | `PoolInv` | the inductive invariant |
| | `DisjointHolds`, `ChainExactHolds`, `FreesExactHolds` | `Disjoint`, `ChainExact`, `FreesExact` |
| | `RefinesHeap` | `ImplementsHeap` |
| `MmiProofs` | `MmiInv` | the inductive invariant |
| | `AccountedHolds`, `RefinesHeap` | `Accounted`, `ImplementsHeap` |
| `QueueProofs` | `LinkedHolds`, `RefinesDeque` | `List`'s `Linked`, `ImplementsDeque` |
| | `SchedulerInv` | `Sched`'s inductive invariant |
| | `ReadyExactHolds`, `SleepsLongEnoughHolds`, `RefinesRoundRobin` | `ReadyExact`, `SleepsLongEnough`, `ImplementsRoundRobin` |
| `IrqProofs` | `InterruptInv` | the inductive invariant |
| | `EoiOwnHolds`, `NoStrayHolds`, `TicksExactHolds`, `KeysInOrderHolds` | `EoiOwn`, `NoStray`, `TicksExact`, `KeysInOrder` |
| `AhciProofs` | `AhciInv` | the inductive invariant |
| | `TypeCorrect`, `MovedAtRestHolds`, `TablesStableHolds`, `NoLateTransferHolds` | `TypeOK`, `MovedAtRest`, `TablesStable`, `NoLateTransfer` |
| | `ControllerFoundHolds` | `ControllerFound` |
| | `ContentHolds`, `RefinesBlockDevice` | what is in memory and on the disk; `ImplementsBlockDevice` |
| `FoldProofs` | `FatInvHolds` | `Fat`'s inductive invariant |
| | `FreesExactHolds`, `ClustersDistinctHolds`, `WithinClustersHolds` | `FreesExact`, `ClustersDistinct`, `WithinClusters` |
| | `DurableHolds`, `DirsFoundHolds` | `Durable`, `DirsFound` |
| | `KprintfInvHolds` | `Kprintf`'s inductive invariant |
| | `PrintedHolds`, `RefinesTerminal` | `Printed`, `ImplementsTerminal` |
| `StartupProofs` | `StartupInvHolds` | the inductive invariant |
| | `MapSeenHolds`, `CpusFoundHolds` | `MapSeen`, `CpusFound` |

### From which assumptions

- `Buddy`: `GeometryAssumption` (chunks double, the last order has a block),
  `LastOrderAssumption`, and `Regular`: no order's blocks fill the last word of
  its bitmap exactly. The kernel's own heap is such a geometry
  (`KernelHeapIsRegular`). In geometries that are not regular `_bud_init`'s loop
  sets a whole word of bits although all of them stand for blocks, and those
  blocks are never handed out: `BitmapExact` is false there.
- `Pool`: `LayoutAssumption` (the regions `pl_init` lays out, one behind the
  other, each class twice the one before; a counter can count a region's blocks).
  Nothing is assumed of how many blocks callers ask for: the theorems speak of the
  first request too many as well, and of nothing after it (section 3).
- `Mmi`: `LazyAssumption` (the batch is not larger than the watermark, a larger
  block has more than one leaf) and `MmiAssumption` (the pool's block is one the
  page allocator has, and the pool's own blocks lie in it and do not overlap,
  which is what `PoolProofs` proves of the pool). The page allocator below is its
  abstract heap, which `BuddyProofs` proves it to be.
- `List`: `ListAssumption` (finitely many nodes, none of them the head). `Sched`:
  `SchedAssumption`, with sleeps shorter than one round of `time_ticks` less one
  tick; `msleep` could not notice the end of a longer one.
- `Irq`: `IrqAssumption`, which leaves every depth from 3 on, any number of keys
  and any width of `time_ticks`.
- `Ahci`: `AhciAssumption` and `RequestAssumption` (requests of at least one
  sector inside memory and disk), `MachineAssumption` (the bus keeps to the PCI
  standard, `ConfigSpace`). `ContentHolds` and `RefinesBlockDevice` also assume
  `WithinEntry`: a slot for `ahci_find_empty_cmd_slot` to look at, and no request
  of more sectors than one entry of a table has; run `ahci_long` shows what
  happens to a longer one.
- `Fat`: `FatAssumption` (no more clusters than the bitmap's word has bits; the
  fields of the BPB are numbers; paths are without a zero, as strings are),
  `OneSector` and `NamesFit`, which are the limits of the code (section 3).
- `Kprintf`: `ConsoleAssumption` (a screen has a row and a column, the buffer a
  screen) and `KprintfAssumption` (a format has characters and conversions of the
  five letters; there is room in the buffer for what is printed). Its theorems
  also have the hypothesis `TextsRight`: the text a piece of a call promises is
  what its conversion yields of its argument, whoever else prints. That the
  conversion of a number is its numeral would be an induction over its digits; the
  run has the numerals written out, and `ItoaExact` compares more of them.
- `Startup`: `StartupAssumption`. The map with `MaxDesc` entries fits in the 16
  bits `mm_fin` computes sizes in. What another loader leaves keeps to the
  Multiboot specification (`WellFormed`: finitely many tags that begin at
  multiples of 8, each less than 8 bytes behind the one before, the memory map
  among them). The areas that are searched hold places with a structure or
  without, the tables hold text and entries. `CpusFound`
  promises that a machine with tables gets to their entries only for memory in
  which whatever `mp_search` accepts is a structure (`NoDecoys`), for `strcmp` also
  accepts the beginning of the signature.

### Along which arguments

**`Buddy`.** `NoOverlap` is not inductive: that a new block is disjoint from
the live ones follows from the bitmap (`BitmapExact`), that the bitmap stays
right when a block is freed follows from the header that is read then
(`HeadersExact`), that headers of live blocks are not overwritten follows from
`NoOverlap`, and that merging does not leave the heap needs the padding bits to
stay set. `IInv` is the conjunction of these and of the type invariant; all of
it but the padding is also an invariant of run `buddy`. The geometry behind it
is a tree: two blocks that share a leaf are nested (`Nested`), what
`bud_chk_childs` and `bud_chk_parent` visit are the blocks inside and around
(`InsideIff`, `AroundIff`), the halves of a whole block are whole, and a merge
stops where a sibling is in use, which is where a live block overlaps. For the
refinement, `Alloc` is a grant of a free candidate, and when the order has no
zero bit every candidate overlaps a live block, which is the refusal.
`FreesExact` follows by counting: each bit that the climb or the merge turns is
turned once, so the sets of bits differ by as many elements as the counters do.

**`Pool`.** The chain of a class (`Chain`) says of every block that it is held,
or in the chain once, or above the first one never handed out, and that the
header of each block in the chain names the next. It is inductive together with
`InsidePool` (what callers hold, and so what they write, are blocks of the
regions) and the counters; a finite `live` is needed to count. What keeps the
chain safe from the callers' writes is that blocks and headers of all classes are
apart (`RegionsApart`, `DataApart`), and what finds the right class at a free is
that the regions are consecutive. While a class has a
block left, the first one never handed out lies inside the region; when it has none,
that block is the one behind the region, and behaviours end there.

**`Mmi`.** `Accounted` says which leaves are in use but not as which blocks; a
drain needs that each cached page is a block of its own in the page allocator
(`Taken`), or freeing it would free something else. `Apart` is the disjointness of
the five ways a leaf can be in use. The refill's order matters in one place only:
the leaf it is refused is not one of those it took (`AscendingBehind`). For the
refinement, whatever callers hold of the pool is inside the pool's block and
whatever they hold of the page allocator is outside (`HeldIs`), so
`mm_where_is_addr` is right, and the block that `pl_free` removes is the only one
at that address, for blocks are disjoint and not empty.

**`List`, `Sched`.** `Forms` says that the links of a list are those of a sequence
of distinct nodes, in both directions; each function of `list.c` takes such links
to such links (the lemmas at the head of `QueueProofs`), and what `list_for_each`
visits is that sequence. In
`Sched` the invariant adds that the sequence holds exactly the processes in state
`PROC_READY` (`ReadyList`), that one context is on the processor and all others
are at the place where they gave it up (`OneRuns`), and how far the clock is past
the beginning of the sleep that runs (`Clock`), modulo its width.

**`Irq`.** `EoiOwn` needs to know of the whole stack: the interrupts in service are
those of the handlers that have not yet ended theirs, and each of these
interrupted one of lower priority only (`Service`), so the end of interrupt,
which ends the highest, ends the handler's own. `Places` says that the value a
timer handler has loaded is still that of `time_ticks`: only another timer handler
could change it, and none is let in before the end of interrupt, which comes
after the store. `Counted` and `Keys` say where the tick and the key are that have
been accepted and not yet counted or printed.

**`Ahci`.** The controller executes at most one command, the one the driver polls
for, with the table the driver wrote, unless it stopped at an error, and then
nothing (`OneCommand`); before the lists are moved it is at rest (`AtRest`). From
this the three action properties follow. What is moved needs more: nothing
outside the request changes (`Frame`), and what has been moved is the first
sectors of the request, in order (`InOrder`), as long as nothing failed. For the
bus, `RegisterIs` says that the number made of bus, device, function and offset
names that register and no other; the order in which the loops of
`find_ahci_device` visit the bus is that of a number, which has a least value.

**`Fat`.** `OnDisk` says of the disk that it holds the slots of the files that were
synced last, as many as go into a cluster (all of them where a slot is left free,
which is where a mount is possible), whose clusters are theirs alone; `InMemory`,
which clusters the files in the list have, that the bitmap has these and the system
directory's, that the counter has the rest, and that the list begins with what was
synced. That the mount makes `InMemory` from `OnDisk` is the core: a file's slots
read back as the file (the pieces of a name, cut with terminators and padding and
joined from last to first, are the name), the slots of the next file begin where the
code looks for them, and so the loop over the slots of the whole list returns the
list. `NameTree` says of the search tree that each node is where the comparisons
with the nodes above it lead; inserting keeps that, so a name that was inserted is
found (`DirsFound`), also when `strcmp` takes it for one of its beginnings.

**`Kprintf`.** `Printed` speaks of the end of a call; the invariant says at every
step which piece of the call `vkprintf` is at (`AtPiece`), and from that the place in
the format, the arguments still to come, what the buffer holds and, between
choice and call, what `parse` is: the chosen conversion, or a character if the
piece has been hit. `RowInv` bounds the row: what the call and the handler have
still to print ends before the buffer does, so nothing is stored behind it. That
a call's text is the pieces' texts one behind the other needs the fold
`FlattenSeq` of a prefix (`BeforeSteps`).
Of the console, `Wellformed` says that every row is used from its beginning up to a
place, the cursor's row up to the cursor; the terminal's lines are these
beginnings. `OnScreen` says what the incremental flush relies on: until the first
screen is full, what is shown comes from the buffer, and all of it that lies in
front of `pre` is shown, unless `pre` is back at the origin. A character put into the
buffer is a character of the terminal's last line or a new line (`PutIs`), a text
is a fold of these (`WrittenIs`), and a flush, whether it draws the rest or scrolls,
leaves the last rows on the screen (`FlushIs`).

**`Startup`.** `MapInv` follows the map from the BIOS calls into the table; `CpusFound`
needs `SearchInv`, that no area before the one being searched has a valid
structure, and `EntriesInv`, that the loop has put each processor so far at its
rank among the processors. The walk over the tags is proved from the last tag
backwards: from a tag on, the walk sees the entries of the map if the map is
still ahead.

Folds, and definitions that recurse over data (FAT's slots, the pieces of a name,
the tags), are recursive functions. The library's induction theorems take an
operator as a parameter, which the provers cannot instantiate, so `FoldProofs` and
`StartupProofs` argue with sets: a nonempty set of naturals has a least element
(`LeastNat`), hence a set with 0 and every successor of its members is all of them
(`Inductive`), and a recursive function is what its definition says once a
function that solves the equation is exhibited.

### What is only model-checked

- Liveness (`EveryCallReturns`, `EveryoneRuns`, `EveryKeyPrinted`): fairness is out of
  the proof system's reach.
- Functions whose result for every input would need an induction of its own and
  that the theorems do not rest on: `itoa` (`ItoaExact`), `log` and `power`
  (`LogInvertsPower`), `strtok` (`TokensSplit`). `PoolLayout`'s `CalcSize` is a recursive
  operator and stays in a module that no theorem reaches.
- That a bound is enough: `KernelHeapIsRegular`, `LayoutFits` and `KernelPoolFits`,
  for the sizes they name.
- The two properties that fail (`ReturnsHeapBlock`, `RequestDone`) are refuted by
  their runs; the theorems of those modules say what holds instead.

## 7. What is not modelled

- Paging, and the processor's side of start-up (A20, segments, unreal
  mode, descriptor tables): straight-line programming of hardware without state
  that later steps depend on.
- The kernel's loading beyond the second sector: what the loop does after it has
  overwritten the interrupt vectors is undefined.
- ATA in assembly, which the kernel does not call. Exceptions other than the
  NMI: their handlers print and stop.
- `sched_sleep`, `sched_exit`, `sched_timer`, `proc_exit`; `stack.c`; the record
  of memory areas: nothing calls them. `bst_remove`, `bst_sort`, `mm_alloc` and
  `proc_create_user` are empty.
- What happens after a call that meets an exhausted buddy allocator: it works on
  the allocator's own metadata (run `buddy_full` shows the first step).
- A keyboard interrupt in the middle of `_vga_text_write`: `curr_col++` is a
  load and a store and the cursor is shared, so a character or a new line is
  lost. `Kprintf` interrupts between calls of the console only.
- The IMCR. `mp_init` sets it when the tables ask for it, which takes the
  interrupts of `Irq`'s controllers off the processor; the two are separate.
- The copies of shared files in `P`, and the 64-bit build: the same control
  flow. Where the kernel's copy differs in a way that matters (`list_get`) the
  copy it is built from is modelled.
- `pci_init`'s enumeration, which is not called and keeps nothing.
- Disks with more than one sector per cluster, directories mounted when they fill
  their cluster, and names longer than the buffers: the code writes over what is
  not its own (section 3).
- What follows the first request of a pool class that has no block left.
- ARM start-up and the test shell.
