-------------------------------- MODULE Fat ---------------------------------
(***************************************************************************)
(* The root directory of fs/fat.c: mounting (fat_init), creating a         *)
(* directory in it (fat_crt_dir), writing it back (fat_sync) and changing  *)
(* the current directory (fat_set_dir), over crashes.                      *)
(*                                                                         *)
(* On the disk the directory is a row of slots of 32 bytes.  A file takes  *)
(* one slot per piece of its name, the last piece first, and a slot with   *)
(* its cluster.  In memory it is a list of files; a bitmap and a counter   *)
(* say which clusters are free.  Mounting also makes a search tree of the  *)
(* directories it finds, which fat_set_dir looks in and nothing adds to.   *)
(*                                                                         *)
(* Limits, each an assumption or a guard.  A cluster is one sector: with   *)
(* more of them fat_init_rootfs writes its system entry over the root      *)
(* directory, and cluster numbers, which are used as sector numbers,       *)
(* overlap (OneSector).  The clusters fit one word of the bitmap:          *)
(* bitmap_alloc clears no other (FatAssumption).  Names fit the buffers    *)
(* they are copied to (NamesFit).  fat_sync writes one cluster, however    *)
(* many entries there are; mounting a directory that fills it reads        *)
(* behind its buffer, and the model ends there (Unended).  fat_sync gets   *)
(* no more entries than its buffer holds, and no file without a name, for  *)
(* which fat_crt_lfn writes in front of its array.  The nodes that         *)
(* fat_parse_dir links lie in its own frame; the model takes the outcome   *)
(* that nothing overwrites them.  fat_crt_file, whose node lies in a frame *)
(* that is overwritten at once, is left out.  So are calls in a directory  *)
(* other than the root: nobody initialises its list.                       *)
(*                                                                         *)
(* Faulty variants, which nothing uses, stand in front of their            *)
(* definitions: PieceUnpadded, MarkedRootOnly, CountedFilesOnly,           *)
(* SearchSwapped, WithoutReserved.                                         *)
(***************************************************************************)
EXTENDS Integers, FiniteSets, SequencesExt, Str, Bst

CONSTANTS
  Bpb,       \* the parameter block of the disk
  Path,      \* paths, sequences of characters (positive numbers)
  Slash,     \* the character between the names of a path
  RootName,  \* the name of the root directory, "$"
  PieceLen,  \* F32_LFN_LEN
  MaxFiles   \* bound: the most files in the list of the root directory

LfnMax == 256      \* FAT_LFN_MAX_LEN
EntrySize == 32    \* FAT_ENTRY_SIZE

-----------------------------------------------------------------------------
(* The regions of the disk, in sectors: fat_init *)

Ts == IF Bpb.f16_ts = 0 THEN Bpb.f32_ts ELSE Bpb.f16_ts

FatSectors ==
  (IF Bpb.fat16_region_size # 0 THEN Bpb.fat16_region_size ELSE Bpb.fat32_region_size)
    * Bpb.fat_num

(* The FAT region that is left when two reserved clusters and the system   *)
(* cluster are taken off.                                                  *)
Ffs == Bpb.reserved_sector_count + 2 + 1
Fsn == FatSectors \div Bpb.fat_num - (2 + 1)

(* The data region, and the part of it that holds clusters.  The sector in *)
(* front of that part is the system directory's.                           *)
Dfs == Bpb.reserved_sector_count + FatSectors
Dsn == Ts - Dfs
Reserved == Bpb.spc * 2 + 1
Cfs == Dfs + Reserved
WithoutReserved == Dsn
Csn == Dsn - Reserved

Nums == Csn \div Bpb.spc      \* fmm.c.nums

(* The sectors that _fat_read_dir and _fat_write_dir name for a directory. *)
SysDir == -1
RootDir == 0
Sectors(ost) == Cfs + ost .. Cfs + ost + Bpb.spc - 1

(* The slots of a cluster. *)
ClusterSlots == (Bpb.bps * Bpb.spc) \div EntrySize

Cluster == 0 .. Nums - 1

BaseName(path) == IF Strrchr(path, Slash) = Null THEN path
                  ELSE From(path, Strrchr(path, Slash) + 1)   \* fat_parse_path

(* A path that ends in a slash has the empty name. *)
Name == {BaseName(path) : path \in Path}

Pieces(name) == (Len(name) + PieceLen - 1) \div PieceLen    \* fat_get_lfns

ASSUME FatAssumption ==
  /\ \A field \in {"f16_ts", "f32_ts", "bps", "reserved_sector_count",
                   "fat16_region_size", "fat32_region_size"} : Bpb[field] \in Nat
  /\ Bpb.fat_num \in Nat \ {0}
  /\ Nums \in 1 .. 32
  /\ PieceLen \in Nat \ {0}
  /\ MaxFiles \in Nat
  /\ Path \subseteq Seq(Nat \ {0}) /\ RootName \in Seq(Nat \ {0}) \ {<<>>}

ASSUME OneSector == Bpb.spc = 1

(* A name and its zero fit fat_file.name, its pieces the copy that         *)
(* fat_parse_lfn makes of them.                                            *)
ASSUME NamesFit ==
  \A name \in Name : Len(name) < LfnMax /\ Pieces(name) * PieceLen <= LfnMax

None == -1    \* the cluster of a file that got none
File == [name : Name, clus : Cluster \cup {None}]
Slot == [ord : Nat, last : BOOLEAN, text : Seq(Int), clus : Cluster \cup {None}]

VARIABLES
  disk,      \* the slots of the root directory's cluster that are not zero
  mounted,
  bits,      \* fmm.c.bit: the clusters in use
  frees,     \* fmm.c.frees
  files,     \* root.fl
  tree,      \* the search tree of directories below root.node
  cd,        \* fmm.cd: the name of the current directory, <<>> for none, or Wild
  synced     \* auxiliary: the files the last fat_sync was called with

vars == <<disk, mounted, bits, frees, files, tree, cd, synced>>

(* A pointer to no directory at all. *)
Wild == <<0>>

-----------------------------------------------------------------------------
(* Names as slots: fat_conv_f2e *)

(* The n-th piece of a name: its characters, a zero if there is room for   *)
(* it, then padding (fat_crt_lfn, fat_pad_lfn, lfn_pad).                   *)
Pad == -1
PieceUnpadded(name, n) ==
  [i \in 1 .. PieceLen |->
     LET k == (n - 1) * PieceLen + i IN
     IF k <= Len(name) THEN name[k] ELSE Pad]
Piece(name, n) ==
  [i \in 1 .. PieceLen |->
     LET k == (n - 1) * PieceLen + i IN
     CASE k <= Len(name)     -> name[k]
       [] k = Len(name) + 1  -> 0
       [] OTHER              -> Pad]

Lfn(name, n) ==
  [ord |-> n, last |-> n = Pieces(name), text |-> Piece(name, n), clus |-> None]

(* The short name: what is before the first dot and behind it, cut off and *)
(* padded with spaces, or as much of a name without a dot as there is room *)
(* for.  Nothing reads it (_fat_crt_sfn, fat_vali_sfn).                    *)
Dot == 46
Spaces(n) == Memset([i \in 1 .. n |-> 0], 32, n)

ShortName(name) ==
  LET dot == Strchr(name, Dot)
      ext == From(name, dot + 1)
  IN  IF dot = Null THEN Strncpy(Spaces(11), name, 11)
      ELSE Strncpy(Spaces(8), name, Min({dot, 8})) \o Strncpy(Spaces(3), ext, Min({Len(ext), 3}))

(* The name is found again, up to its second dot, where it fits.           *)
ASSUME ShortNamesReadable ==
  LET Word(text) == SelectSeq(text, LAMBDA ch : ch # 32) IN
  \A n \in 0 .. 5 : \A name \in [1 .. n -> {65, 66, Dot}] :
    LET base == Word(SubSeq(ShortName(name), 1, 8))
        ext  == Word(SubSeq(ShortName(name), 9, 11))
        dot  == Strchr(name, Dot)
    IN  IF dot = Null THEN base = name /\ ext = <<>>
        ELSE IsPrefix(base \o <<Dot>> \o ext, name) /\ Len(ext) = Min({3, n - dot - 1})

Sfn(name, clus) == [ord |-> 0, last |-> FALSE, text |-> ShortName(name), clus |-> clus]

(* fat_comb: the pieces from last to first, then the slot with the cluster. *)
Combined(lfns, sfn) == Append(Reverse(lfns), sfn)

Slots(file) == Combined([n \in 1 .. Pieces(file.name) |-> Lfn(file.name, n)],
                        Sfn(file.name, file.clus))

(* Slots as names: fat_conv_e2f *)

(* fat_get_ost *)
Ost(slot) == IF slot.last THEN slot.ord ELSE 1

(* The file whose slots begin at p: fat_parse_lfn, fat_parse_clus. *)
FileAt(slots, p) ==
  LET ost == Ost(slots[p]) IN
  [name |-> CString(FlattenSeq([i \in 1 .. ost |-> slots[p + ost - i].text])),
   clus |-> slots[p + ost].clus]

(* fat_parse_entry *)
Parsed(slots) ==
  LET from[p \in Nat \ {0}] ==
        IF p > Len(slots) THEN <<>>
        ELSE <<FileAt(slots, p)>> \o from[p + Ost(slots[p]) + 1]
  IN  from[1]

-----------------------------------------------------------------------------
Lost == /\ bits' = {}
        /\ frees' = 0
        /\ files' = <<>>
        /\ tree' = Root(RootName)
        /\ cd' = <<>>

(* A disk whose root directory is empty. *)
Init ==
  /\ disk = <<>>
  /\ mounted = FALSE
  /\ bits = {} /\ frees = 0 /\ files = <<>>
  /\ tree = Root(RootName) /\ cd = <<>>
  /\ synced = <<>>

(* bitmap_alloc clears the first word, which holds all clusters. *)
Unmarked == {}

(* bitmap_get_free: the first zero bit. *)
FirstFree(used) == Min((0 .. Nums) \ used)

(* fat_init with fat_init_rootfs: the system directory "$" gets the first  *)
(* cluster, then fat_parse_dir takes those of the files it finds, and      *)
(* fat_set_clus counts each of them, whether its bit was set or not.       *)
MarkedRootOnly(found) == {FirstFree(Unmarked)}
Marked(found) == {FirstFree(Unmarked)} \cup {found[i].clus : i \in DOMAIN found}

CountedFilesOnly(found) == Nums - Len(found)
Counted(found) == Nums - 1 - Len(found)

(* Where a name is, seen from a node, as fat_search_comp and               *)
(* fat_insert_comp tell it.  Only the latter looks for empty names.        *)
Turn(diff) == IF diff < 0 THEN Left ELSE IF diff > 0 THEN Right ELSE Match

SearchSwapped(node, name) == Turn(Strcmp(node, name))
SearchTurn(node, name) == Turn(Strcmp(name, node))

InsertTurn(node, name) ==
  IF node = <<>> \/ name = <<>> THEN Error ELSE Turn(Strcmp(name, node))

Searching(name, t) == [node \in Range(t) |-> SearchTurn(node, name)]
Inserting(name, t) == [node \in Range(t) |-> InsertTurn(node, name)]

(* fat_crt_dir_tree: a name that compares equal to one on its way is left  *)
(* out.                                                                    *)
DirTree(found) ==
  LET Add(t, file) == Insert(t, file.name, Inserting(file.name, t))
  IN  FoldLeft(Add, Root(RootName), found)

(* Behind a directory that fills its cluster there is no zero to stop at.  *)
Unended == Len(disk) >= ClusterSlots

Mount ==
  /\ ~ mounted /\ ~ Unended
  /\ mounted' = TRUE
  /\ files' = Parsed(disk)
  /\ bits' = Marked(Parsed(disk))
  /\ frees' = Counted(Parsed(disk))
  /\ tree' = DirTree(Parsed(disk))
  /\ cd' = RootName
  /\ UNCHANGED <<disk, synced>>

Exhausted == frees = 0

(* fat_crt_dir: _fat_crt_dir, fat_crt and fat_alloc_clus. *)
CrtDir(name) ==
  /\ mounted /\ cd = RootName
  /\ Len(files) < MaxFiles
  /\ ~ Exhausted
  /\ LET ost == FirstFree(bits) IN
     /\ bits' = bits \cup {ost}
     /\ frees' = frees - 1
     /\ files' = Append(files, [name |-> name, clus |-> ost])
  /\ UNCHANGED <<disk, mounted, tree, cd, synced>>

(* Without a free cluster fat_alloc_clus returns -ENOMEM; fat_crt reports  *)
(* it and adds the file to the list all the same.                          *)
CrtDirExhausted(name) ==
  /\ mounted /\ cd = RootName
  /\ Len(files) < MaxFiles
  /\ Exhausted
  /\ files' = Append(files, [name |-> name, clus |-> None])
  /\ UNCHANGED <<disk, mounted, bits, frees, tree, cd, synced>>

(* fat_write_dir: one cluster of what it is given. *)
FirstCluster(slots) == SubSeq(slots, 1, Min({Len(slots), ClusterSlots}))

(* fat_sync, whose buffer has four clusters.  For a file without a cluster *)
(* it would store what is at address 0, which is left out.                 *)
Sync ==
  /\ mounted /\ cd = RootName
  /\ \A i \in DOMAIN files : files[i].clus # None /\ files[i].name # <<>>
  /\ LET entries == FlattenSeq([i \in DOMAIN files |-> Slots(files[i])]) IN
     /\ Len(entries) <= 4 * ClusterSlots
     /\ disk' = FirstCluster(entries)
  /\ synced' = files
  /\ UNCHANGED <<mounted, bits, frees, files, tree, cd>>

(* fat_set_dir.  A name that is not found is reported, and the address     *)
(* computed from NULL becomes the current directory.                       *)
SetDir(path) ==
  /\ mounted /\ cd # Wild
  /\ LET hits == Search(tree, Searching(BaseName(path), tree))
     IN  cd' = IF hits = {} THEN Wild ELSE CHOOSE dir \in hits : TRUE
  /\ UNCHANGED <<disk, mounted, bits, frees, files, tree, synced>>

(* The machine stops: what is in memory is gone. *)
Crash ==
  /\ mounted
  /\ mounted' = FALSE
  /\ Lost
  /\ UNCHANGED <<disk, synced>>

Next ==
  \/ Mount \/ Sync \/ Crash
  \/ \E path \in Path : SetDir(path)
  \/ \E name \in Name : CrtDir(name) \/ CrtDirExhausted(name)
  \/ ~ mounted /\ Unended /\ UNCHANGED vars

Spec == Init /\ [][Next]_vars

-----------------------------------------------------------------------------
(* Properties *)

Types ==
  /\ mounted \in BOOLEAN
  /\ bits \subseteq Cluster
  /\ frees \in 0 .. Nums
  /\ files \in Seq(File) /\ synced \in Seq(File)
  /\ disk \in Seq(Slot)
  /\ \A p \in DOMAIN tree : tree[p] \in Name \cup {RootName}
  /\ cd \in Name \cup {RootName, <<>>, Wild}

(* A file's cluster belongs to it alone: no other file in memory has it,   *)
(* nor the system directory, nor a file that was written in an earlier     *)
(* session and is still there (fat_set_clus after fat_alloc_clus).         *)
ClustersDistinct ==
  LET own == {i \in DOMAIN files : files[i].clus # None} IN
  /\ \A i, j \in own : files[i].clus = files[j].clus => i = j
  /\ \A i \in own : files[i].clus \in bits \ {0}
  /\ mounted => \A i \in DOMAIN synced : \E j \in own : files[j] = synced[i]

(* What is written for a directory, the root's own sectors included, stays *)
(* where the disk's parameter block says that clusters are: on the disk,   *)
(* behind the FAT and the system directory's sector, until the counter has *)
(* let the last cluster go (fat_init, fat_alloc_clus).                     *)
WithinClusters ==
  LET used == {RootDir} \cup ({files[i].clus : i \in DOMAIN files} \ {None})
      fat  == Ffs .. Ffs + Fsn - 1
  IN  /\ Types
      /\ \A c \in used :
           /\ Sectors(c) \subseteq Cfs .. Ts - 1
           /\ Sectors(c) \cap (fat \cup Sectors(SysDir)) = {}
      /\ Sectors(SysDir) \cap fat = {}

(* The counter, which alone decides when the disk is full, is the number   *)
(* of free clusters, in every session (fat_set_clus, fat_alloc_clus).      *)
FreesExact == mounted => frees = Nums - Cardinality(bits)

(* Mounting finds the files of the last fat_sync, with their names and     *)
(* clusters, whatever was created after it and lost in a crash, as long as *)
(* they left a slot of their cluster free (fat_conv_f2e, fat_comb,         *)
(* fat_conv_e2f).                                                          *)
Durable == [][~ mounted /\ mounted' => files' = synced]_vars

(* strcmp is no order, since it takes a string for equal to its            *)
(* beginnings; even so each directory that mounting finds can be entered,  *)
(* or else one whose name begins it or is begun by it, and those that have *)
(* a node of their own are found themselves (bst_insert, bst_search,       *)
(* fat_set_dir).                                                           *)
DirsFound ==
  [][~ mounted /\ mounted' =>
       \A i \in DOMAIN files' :
         LET name == files'[i].name
             hits == Search(tree', Searching(name, tree'))
         IN  /\ \E hit \in hits : IsPrefix(hit, name) \/ IsPrefix(name, hit)
             /\ (\E p \in DOMAIN tree' : tree'[p] = name) => hits = {name}]_vars
=============================================================================
