---------------------------- MODULE FilesysProofs ----------------------------
(***************************************************************************)
(* The file system's disk is consistent between any two sector writes, for *)
(* any disk, directory, set of names and sizes and number of open files,   *)
(* also when malloc fails; a new file reads as zeros; and as long as       *)
(* malloc does not fail, names are unique and the free map is exact.       *)
(***************************************************************************)
EXTENDS Filesys, TLAPS

(* The disk holds the free map and the root directory, sizes are sizes, and *)
(* a null pointer is none of the things it stands in for.                   *)
Sane ==
    /\ NSectors \in Nat /\ NSectors >= 4
    /\ DirSlots \in Nat /\ MaxFiles \in Nat /\ Sizes \subseteq Nat /\ MallocFails \in BOOLEAN
    /\ Null \notin Sectors /\ Null \notin Slots
    /\ Null \notin [name : Names, sector : Sectors]
    /\ Null \notin [cnt : Nat, removed : BOOLEAN, start : Sectors, len : Nat]

Inodes == [start : Sectors, len : Nat]
Entries == [name : Names, sector : Sectors]
Handles == [cnt : Nat, removed : BOOLEAN, start : Sectors, len : Nat]
Steps == {"idle", "alloc_inode", "alloc_data", "put_inode", "zeros", "look", "add", "undo",
          "erase", "release_inode", "release_data"}
Ops == [do : Steps, name : Names \cup {Null}, size : Nat, sector : Sectors, start : Sectors, k : Nat]

TypeInv ==
    /\ dmap \subseteq Sectors /\ free_map \subseteq Sectors
    /\ dinode \in [Sectors -> Inodes]
    /\ slot \in [Slots -> Entries \cup {Null}]
    /\ up \in BOOLEAN
    /\ open \in [Sectors -> Handles \cup {Null}]
    /\ files \subseteq [id : 1 .. MaxFiles, sector : Sectors] /\ IsFiniteSet(files)
    /\ op \in Ops
    /\ stops \in Nat

(* Inodes in use: those an entry names and those somebody has open.         *)
Named == {slot[k].sector : k \in {n \in Slots : slot[n] # Null}}
Opened == {s \in Sectors : open[s] # Null}
Roots == Named \cup Opened
Data(s) == Run(dinode[s].start, dinode[s].len)

(* Sectors an unfinished operation has taken or not yet given back.         *)
Creating == {"put_inode", "zeros", "look", "add"}
TakenInode ==
    IF op.do \in {"alloc_data", "undo", "release_inode"} \cup Creating THEN {op.sector} ELSE {}
TakenData ==
    IF op.do \in {"release_inode", "release_data"} \cup Creating \/ (op.do = "undo" /\ op.start # 0)
    THEN Run(op.start, op.size) ELSE {}
Taken == TakenInode \cup TakenData

(* Inodes in use lie in sectors marked as used, apart from one another and  *)
(* from the system's, and an inode lies outside its own data.               *)
MapInv ==
    /\ dmap = {} => ~up /\ Named = {}
    /\ dmap # {} => System \subseteq dmap
    /\ \A s \in Named : Reachable(s) \subseteq dmap \ System
    /\ up => System \subseteq free_map /\ free_map \subseteq dmap
    /\ up => \A s \in Roots : Reachable(s) \subseteq free_map \ System
    /\ \A s \in Roots : s \notin Data(s)
    /\ \A r, s \in Roots : r # s => Reachable(r) \cap Reachable(s) = {}
    /\ \A j, k \in Slots : (slot[j] # Null /\ slot[k] # Null /\ slot[j].sector = slot[k].sector) => j = k

(* An operation's sectors are marked and belong to nothing else, and what    *)
(* filesys_create has at hand follows its progress.                          *)
OpInv ==
    /\ op.do = "idle" => op = Idle
    /\ ~up => op = Idle
    /\ Taken \subseteq free_map \ System
    /\ \A s \in Roots : Taken \cap Reachable(s) = {}
    /\ TakenInode \cap TakenData = {}
    /\ op.do \in {"alloc_inode", "alloc_data"} \cup Creating => op.name \in Names
    /\ op.do \in {"alloc_inode", "alloc_data"} => op.start = 0
    /\ op.do \in {"alloc_inode", "alloc_data", "put_inode"} => op.k = 0
    /\ op.do \in {"zeros", "look", "add"} => dinode[op.sector] = [start |-> op.start, len |-> op.size]

(* An open inode is the one on disk, is counted once for each file and for  *)
(* a dir_remove that has it open, and is removed only without a name.       *)
Opens(s) == {f \in files : f.sector = s}
Erasing(s) == op.do = "erase" /\ op.sector = s
OpenInv ==
    /\ ~up => files = {} /\ Opened = {}
    /\ \A s \in Opened : open[s].start = dinode[s].start /\ open[s].len = dinode[s].len
    /\ \A f \in files : f.sector \in Opened
    /\ \A s \in Opened : open[s].cnt = Cardinality(Opens(s)) + (IF Erasing(s) THEN 1 ELSE 0)
    /\ \A s \in Opened : open[s].cnt > 0
    /\ \A s \in Opened : open[s].removed => s \notin Named
    /\ op.do = "erase" => /\ op.k \in Slots /\ slot[op.k] # Null /\ slot[op.k].sector = op.sector
                          /\ op.sector \in Opened

(* A named inode that was not written since its creation has clean data, and *)
(* so has, as far as it got, the one being created.                          *)
ZeroInv ==
    /\ \A s \in Named : s \notin written => Data(s) \cap dirty = {}
    /\ op.do \in {"zeros", "look", "add"} => op.sector \notin written
    /\ op.do = "zeros" => op.k <= op.size /\ Run(op.start, op.k) \cap dirty = {}
    /\ op.do \in {"look", "add"} => Run(op.start, op.size) \cap dirty = {}

DiskInv == TypeInv /\ MapInv /\ OpInv /\ OpenInv /\ ZeroInv

(* While malloc does not fail: the map on disk is the one in memory, and a   *)
(* sector it marks is the system's, in use by one inode or operation, or     *)
(* known to be lost.                                                         *)
InUse == UNION {Reachable(s) : s \in Roots}
Owned == InUse \cup Taken
AccountInv ==
    /\ up => dmap = free_map /\ free_map = System \cup Owned \cup leaked /\ leaked \cap Owned = {}
    /\ ~up => leaked = dmap \ (Referenced \cup System)
    /\ \A s \in Opened : ~open[s].removed => s \in Named

(* Names are unique, and the one that is being added is new.                 *)
NamesInv == NamesUnique /\ (op.do = "add" => Entry(op.name) = {})

-----------------------------------------------------------------------------
(* Every set of natural numbers has a least element: bitmap_scan, lookup and *)
(* dir_add take the first sector or slot that will do.  Proved at the end.   *)
HaveMinima == \A S \in SUBSET Nat : S # {} => \E x \in S : \A y \in S : x <= y

(* The least element is one of the set.                                      *)
LEMMA MinIsIn ==
    ASSUME HaveMinima, NEW S, S \subseteq Nat, S # {}
    PROVE  Min(S) \in S
<1>1. \E x \in S : \A y \in S : x <= y
  BY ZenonT(60) DEF HaveMinima
<1> QED BY ZenonT(60), <1>1 DEF Min

(* A run of no sectors, of one, and the sectors of the disk.                 *)
LEMMA SectorFacts ==
    ASSUME Sane
    PROVE  /\ Sectors \subseteq Nat /\ Slots \subseteq Nat
           /\ System \subseteq Sectors /\ System # {} /\ {0, 1} \subseteq System
           /\ Null \notin Sectors /\ Null \notin Slots
           /\ Null \notin Entries /\ Null \notin Handles
           /\ \A s \in Sectors : Run(s, 1) = {s} /\ Run(s, 0) = {}
<1>1. Sectors \subseteq Nat /\ Slots \subseteq Nat
  BY DEF Sane, Sectors, Slots
<1>2. System \subseteq Sectors /\ System # {} /\ {0, 1} \subseteq System
  BY DEF Sane, Sectors, System, FREE_MAP_SECTOR, ROOT_DIR_SECTOR, MapData, DirData
<1>3. \A s \in Sectors : Run(s, 1) = {s} /\ Run(s, 0) = {}
  BY <1>1 DEF Run
<1>4. Null \notin Sectors /\ Null \notin Slots /\ Null \notin Entries /\ Null \notin Handles
  BY ZenonT(60) DEF Sane, Entries, Handles
<1> QED BY <1>1, <1>2, <1>3, <1>4

(* free_map_allocate takes sectors of the disk that were not in use.         *)
LEMMA FirstRunIsFree ==
    ASSUME Sane, HaveMinima, NEW cnt \in Nat, FirstRun(cnt) # Null
    PROVE  /\ FirstRun(cnt) \in Sectors
           /\ Run(FirstRun(cnt), cnt) \subseteq Sectors
           /\ Run(FirstRun(cnt), cnt) \cap free_map = {}
<1> DEFINE runs == {s \in Sectors : \A n \in Run(s, cnt) : n \in Sectors \ free_map}
<1>1. runs # {} /\ FirstRun(cnt) = Min(runs)
  BY ZenonT(60) DEF FirstRun
<1>2. runs \subseteq Nat
  BY ZenonT(60), SectorFacts
<1>3. FirstRun(cnt) \in runs
  <2> HIDE DEF runs
  <2> QED BY ZenonT(60), <1>1, <1>2, MinIsIn
<1> QED BY ZenonT(60), <1>3

(* An entry that lookup finds has the name.                                  *)
LEMMA LookupFinds ==
    ASSUME Sane, HaveMinima, NEW name, NEW k \in lookup(name), k # Null
    PROVE  k \in Slots /\ slot[k] # Null /\ slot[k].name = name
<1>1. Entry(name) \subseteq Slots /\ Entry(name) \subseteq Nat
  BY ZenonT(60), SectorFacts DEF Entry
<1>2. Entry(name) # {} /\ k = Min(Entry(name))
  BY ZenonT(60) DEF lookup
<1>3. k \in Entry(name)
  BY ZenonT(60), <1>1, <1>2, MinIsIn
<1> QED BY ZenonT(60), <1>3 DEF Entry

(* The slot that dir_add finds holds no entry, unless it is end of file.     *)
LEMMA FreeSlotIsFree ==
    ASSUME Sane, HaveMinima
    PROVE  /\ Min(Unused) \in Slots \cup {DirSlots + 1}
           /\ Min(Unused) \in Slots => slot[Min(Unused)] = Null
<1>1. Unused \subseteq Nat /\ Unused # {} /\ DirSlots + 1 \notin Slots
  BY SectorFacts DEF Unused, Sane, Slots
<1>2. Min(Unused) \in Unused
  BY ZenonT(60), <1>1, MinIsIn
<1>3. Unused \subseteq Slots \cup {DirSlots + 1}
  BY ZenonT(60) DEF Unused
<1>4. \A k \in Unused : k \in Slots => slot[k] = Null
  BY ZenonT(60), <1>1 DEF Unused
<1> QED BY ZenonT(60), <1>2, <1>3, <1>4

-----------------------------------------------------------------------------
(* What the directory and the open inodes refer to: the entries, the table   *)
(* of open inodes and the inodes in use.                                     *)
Kept == UNCHANGED <<slot, open>> /\ \A s \in Roots : dinode'[s] = dinode[s]

(* The same references, if those are kept.                                   *)
LEMMA SameTree ==
    ASSUME Kept
    PROVE  /\ Named' = Named /\ Opened' = Opened /\ Roots' = Roots
           /\ \A s \in Roots : Reachable(s)' = Reachable(s) /\ Data(s)' = Data(s)
<1>1. Named' = Named /\ Opened' = Opened
  BY ZenonT(60) DEF Named, Opened, Kept
<1>2. \A s \in Roots : Reachable(s)' = Reachable(s) /\ Data(s)' = Data(s)
  BY ZenonT(60) DEF Reachable, Data, Run, Kept
<1> QED BY ZenonT(60), <1>1, <1>2 DEF Roots

(* The free map may change under an operation as long as it keeps what the   *)
(* directory and the open inodes refer to, and the disk is not behind it.    *)
LEMMA MapMoves ==
    ASSUME MapInv, up, Kept, UNCHANGED up,
           free_map' \subseteq dmap', System \subseteq free_map', System # {},
           \A s \in Roots : Reachable(s) \subseteq free_map'
    PROVE  MapInv'
<1>1. /\ Named' = Named /\ Opened' = Opened /\ Roots' = Roots
      /\ \A s \in Roots : Reachable(s)' = Reachable(s) /\ Data(s)' = Data(s)
  BY ZenonT(60), SameTree
<1>2. dmap' # {} /\ System' = System /\ up' = up /\ slot' = slot
  BY ZenonT(60) DEF System, Kept
<1>3. \A s \in Roots : Reachable(s) \subseteq free_map' \ System
  BY ZenonT(60) DEF MapInv
<1>4. \A s \in Named : s \in Roots /\ Reachable(s) \subseteq dmap' \ System
  BY ZenonT(60), <1>3 DEF Roots
<1> QED BY ZenonT(60), <1>1, <1>2, <1>3, <1>4 DEF MapInv

(* open_inodes and the files are as the directory has them while an          *)
(* operation other than dir_remove goes on.                                  *)
LEMMA OpenStays ==
    ASSUME OpenInv, Kept, UNCHANGED <<files, up>>, op.do # "erase", op'.do # "erase"
    PROVE  OpenInv'
<1>1. /\ Named' = Named /\ Opened' = Opened /\ open' = open
      /\ \A s : Opens(s)' = Opens(s) /\ ~Erasing(s) /\ ~Erasing(s)'
  BY ZenonT(60), SameTree DEF Opens, Erasing, Kept
<1>2. \A s \in Opened : dinode'[s] = dinode[s]
  BY ZenonT(60) DEF Kept, Roots
<1> QED BY ZenonT(60), <1>1, <1>2 DEF OpenInv

(* Nothing changes.                                                          *)
LEMMA StutterInv ==
    ASSUME DiskInv, UNCHANGED vars
    PROVE  DiskInv'
<1>0. UNCHANGED <<dmap, dinode, slot, dirty, up, free_map, open, files, op, stops, leaked, written>>
  BY ZenonT(60) DEF vars, disk, memory, ghosts
<1>1. /\ Named' = Named /\ Opened' = Opened /\ Roots' = Roots
      /\ \A s : Reachable(s)' = Reachable(s) /\ Data(s)' = Data(s)
  BY ZenonT(60), <1>0 DEF Named, Opened, Roots, Reachable, Data
<1>2. /\ Taken' = Taken /\ TakenInode' = TakenInode /\ TakenData' = TakenData
      /\ \A s : Opens(s)' = Opens(s) /\ Erasing(s)' = Erasing(s)
  BY ZenonT(60), <1>0 DEF Taken, TakenInode, TakenData, Opens, Erasing
<1>3. TypeInv'
  BY ZenonT(60), <1>0 DEF DiskInv, TypeInv
<1>4. MapInv' /\ OpInv'
  BY ZenonT(60), <1>0, <1>1, <1>2 DEF DiskInv, MapInv, OpInv
<1>5. OpenInv' /\ ZeroInv'
  BY ZenonT(60), <1>0, <1>1, <1>2 DEF DiskInv, OpenInv, ZeroInv
<1> QED BY ZenonT(60), <1>3, <1>4, <1>5 DEF DiskInv

(* The sectors each kind of step has in hand.                                *)
LEMMA TakenFacts ==
    /\ op.do \in {"idle", "alloc_inode", "erase"} => TakenInode = {} /\ TakenData = {}
    /\ op.do = "alloc_data" => TakenInode = {op.sector} /\ TakenData = {}
    /\ op.do \in Creating => TakenInode = {op.sector} /\ TakenData = Run(op.start, op.size)
    /\ op.do = "undo" => /\ TakenInode = {op.sector}
                         /\ TakenData = IF op.start # 0 THEN Run(op.start, op.size) ELSE {}
    /\ op.do = "release_inode" => TakenInode = {op.sector} /\ TakenData = Run(op.start, op.size)
    /\ op.do = "release_data" => TakenInode = {} /\ TakenData = Run(op.start, op.size)
BY DEF TakenInode, TakenData, Creating

(* The same after a step.                                                    *)
LEMMA TakenNext ==
    /\ op'.do \in {"idle", "alloc_inode", "erase"} => TakenInode' = {} /\ TakenData' = {}
    /\ op'.do = "alloc_data" => TakenInode' = {op'.sector} /\ TakenData' = {}
    /\ op'.do \in Creating => TakenInode' = {op'.sector} /\ TakenData' = Run(op'.start, op'.size)
    /\ op'.do = "undo" => /\ TakenInode' = {op'.sector}
                          /\ TakenData' = IF op'.start # 0 THEN Run(op'.start, op'.size) ELSE {}
    /\ op'.do = "release_inode" => TakenInode' = {op'.sector} /\ TakenData' = Run(op'.start, op'.size)
    /\ op'.do = "release_data" => TakenInode' = {} /\ TakenData' = Run(op'.start, op'.size)
BY DEF TakenInode, TakenData, Creating, Run

(* A step of an operation that leaves inodes, entries and open files alone   *)
(* need only see to the sectors the operation has in hand.                   *)
LEMMA Carried ==
    ASSUME Sane, DiskInv, up, Kept, UNCHANGED <<files, up, stops>>,
           op' \in Ops, dinode' \in [Sectors -> Inodes], op.do # "erase", op'.do # "erase",
           dirty' \subseteq dirty, \A s \in Named : s \notin written' => s \notin written,
           dmap' \subseteq Sectors, free_map' \subseteq dmap', System \subseteq free_map',
           \A s \in Roots : Reachable(s) \subseteq free_map',
           OpInv',
           op'.do \in {"zeros", "look", "add"} => op'.sector \notin written',
           op'.do = "zeros" => op'.k <= op'.size /\ Run(op'.start, op'.k) \cap dirty' = {},
           op'.do \in {"look", "add"} => Run(op'.start, op'.size) \cap dirty' = {}
    PROVE  DiskInv'
<1>1. TypeInv'
  BY ZenonT(60) DEF DiskInv, TypeInv, Kept
<1>2. MapInv'
  BY ZenonT(60), MapMoves, SectorFacts DEF DiskInv
<1>3. OpenInv'
  BY ZenonT(60), OpenStays DEF DiskInv
<1>4. Named' = Named /\ \A s \in Named : Data(s)' = Data(s)
  BY ZenonT(60), SameTree DEF Roots
<1>5. (\A s \in Named : s \notin written => Data(s) \cap dirty = {})'
  BY ZenonT(60), <1>4 DEF DiskInv, ZeroInv
<1>6. ZeroInv'
  BY ZenonT(60), <1>5 DEF ZeroInv, Run
<1> QED BY ZenonT(60), <1>1, <1>2, <1>3, <1>6 DEF DiskInv

(* What DiskInv says of a file system that is running.                       *)
LEMMA WhileUp ==
    ASSUME Sane, DiskInv, up
    PROVE  /\ dmap \subseteq Sectors /\ free_map \subseteq dmap /\ System \subseteq free_map
           /\ \A s \in Roots : Reachable(s) \subseteq free_map
           /\ dinode \in [Sectors -> Inodes]
           /\ op \in Ops /\ op.sector \in Sectors /\ op.start \in Sectors /\ op.size \in Nat /\ op.k \in Nat
<1>1. op \in Ops
  BY ZenonT(60) DEF DiskInv, TypeInv
<1>2. op.sector \in Sectors /\ op.start \in Sectors /\ op.size \in Nat /\ op.k \in Nat
  BY <1>1 DEF Ops
<1> QED BY ZenonT(60), <1>1, <1>2 DEF DiskInv, TypeInv, MapInv

(* The end of an operation that has changed nothing or kept what it took.    *)
LEMMA FinishInv ==
    ASSUME Sane, DiskInv, up, op.do # "erase", op' = Idle,
           UNCHANGED <<dmap, dinode, slot, dirty, up, free_map, open, files, stops, written>>
    PROVE  DiskInv'
<1>1. op' \in Ops /\ op'.do = "idle"
  BY SectorFacts DEF Idle, Ops, Steps
<1>2. TakenInode' = {} /\ TakenData' = {} /\ Taken' = {}
  BY ZenonT(60), <1>1, TakenNext DEF Taken
<1>3. OpInv'
  BY <1>1, <1>2 DEF OpInv, Creating, Idle
<1>4. op'.do \notin {"zeros", "look", "add", "erase"}
  BY <1>1
<1> QED BY ZenonT(60), <1>1, <1>3, <1>4, WhileUp, Carried DEF Kept

(* filesys_create begins: the operation has taken nothing yet.               *)
LEMMA CreateInv ==
    ASSUME Sane, DiskInv, NEW name \in Names, NEW size \in Sizes, filesys_create(name, size)
    PROVE  DiskInv'
<1>0. /\ up /\ op.do = "idle"
      /\ UNCHANGED <<dmap, dinode, slot, dirty, up, free_map, open, files, stops, leaked, written>>
      /\ op' = op \/ op' = [Idle EXCEPT !.do = "alloc_inode", !.name = name, !.size = size]
  BY ZenonT(60) DEF filesys_create, At, disk, memory, ghosts
<1>1. CASE op' = op
  <2>1. UNCHANGED vars
    BY ZenonT(60), <1>0, <1>1 DEF vars, disk, memory, ghosts
  <2> QED BY <2>1, StutterInv
<1>2. CASE op' = [Idle EXCEPT !.do = "alloc_inode", !.name = name, !.size = size]
  <2>1. /\ op' \in Ops /\ op'.do = "alloc_inode" /\ op'.name = name /\ op'.start = 0 /\ op'.k = 0
    BY ZenonT(60), <1>2, SectorFacts DEF Idle, Ops, Steps, Sane
  <2>2. TakenInode' = {} /\ TakenData' = {} /\ Taken' = {}
    BY ZenonT(60), <2>1, TakenNext DEF Taken
  <2>3. OpInv'
    BY <1>0, <2>1, <2>2 DEF OpInv, Creating
  <2>4. op.do # "erase" /\ op'.do \notin {"zeros", "look", "add", "erase"}
    BY <1>0, <2>1
  <2> QED BY ZenonT(60), <1>0, <2>1, <2>3, <2>4, WhileUp, Carried DEF Kept
<1> QED BY ZenonT(60), <1>0, <1>1, <1>2

(* filesys_create gets a sector for the inode, or ends.                      *)
LEMMA AllocInodeInv ==
    ASSUME Sane, HaveMinima, DiskInv, AllocInode
    PROVE  DiskInv'
<1> DEFINE s1 == FirstRun(1)
<1>0. /\ up /\ op.do = "alloc_inode"
      /\ UNCHANGED <<dinode, slot, dirty, up, open, files, stops, leaked, written>>
      /\ \/ /\ s1 # Null /\ free_map' = free_map \cup Run(s1, 1) /\ dmap' = free_map'
            /\ op' = [op EXCEPT !.do = "alloc_data", !.sector = s1]
         \/ op' = Idle /\ UNCHANGED <<free_map, dmap>>
  BY ZenonT(60) DEF AllocInode, free_map_allocate, At, Finish, ghosts
<1>1. CASE op' = Idle /\ UNCHANGED <<free_map, dmap>>
  BY <1>0, <1>1, FinishInv
<1>2. CASE /\ s1 # Null /\ free_map' = free_map \cup Run(s1, 1) /\ dmap' = free_map'
           /\ op' = [op EXCEPT !.do = "alloc_data", !.sector = s1]
  <2>1. s1 \in Sectors /\ Run(s1, 1) = {s1} /\ s1 \notin free_map
    BY <1>2, FirstRunIsFree, SectorFacts
  <2> HIDE DEF s1
  <2>2. /\ op' \in Ops /\ op'.do = "alloc_data" /\ op'.sector = s1
        /\ op'.name = op.name /\ op'.start = op.start /\ op'.k = op.k
    BY ZenonT(60), <1>0, <1>2, <2>1, WhileUp DEF Ops, Steps
  <2>3. TakenInode' = {s1} /\ TakenData' = {} /\ Taken' = {s1}
    BY <2>2, TakenNext DEF Taken
  <2>4. Kept /\ Roots' = Roots /\ \A s \in Roots : Reachable(s)' = Reachable(s)
    BY ZenonT(60), <1>0, SameTree DEF Kept
  <2>5. OpInv'
    BY <1>0, <1>2, <2>1, <2>2, <2>3, <2>4, WhileUp DEF OpInv, DiskInv, Creating, System
  <2>6. op.do # "erase" /\ op'.do \notin {"zeros", "look", "add", "erase"}
    BY <1>0, <2>2
  <2>7. /\ dmap' \subseteq Sectors /\ free_map' \subseteq dmap' /\ System \subseteq free_map'
        /\ \A s \in Roots : Reachable(s) \subseteq free_map'
    BY ZenonT(60), <1>0, <1>2, <2>1, WhileUp
  <2> QED BY ZenonT(60), <1>0, <2>2, <2>5, <2>6, <2>7, WhileUp, Carried DEF Kept
<1> QED BY ZenonT(60), <1>0, <1>1, <1>2

(* inode_create gets its data sectors, or filesys_create must undo.          *)
LEMMA AllocDataInv ==
    ASSUME Sane, HaveMinima, DiskInv, AllocData
    PROVE  DiskInv'
<1> DEFINE s2 == FirstRun(op.size)
<1>0. /\ up /\ op.do = "alloc_data"
      /\ UNCHANGED <<dinode, slot, dirty, up, open, files, stops, leaked, written>>
      /\ \/ /\ s2 # Null /\ free_map' = free_map \cup Run(s2, op.size) /\ dmap' = free_map'
            /\ op' = [op EXCEPT !.do = "put_inode", !.start = s2]
         \/ op' = [op EXCEPT !.do = "undo"] /\ UNCHANGED <<free_map, dmap>>
  BY ZenonT(60) DEF AllocData, free_map_allocate, At, Do, ghosts
<1>a. /\ op.sector \in free_map \ System /\ op.start = 0 /\ op.k = 0 /\ op.name \in Names
      /\ \A s \in Roots : op.sector \notin Reachable(s)
  BY <1>0, TakenFacts DEF DiskInv, OpInv, Taken
<1>b. Kept /\ Roots' = Roots /\ \A s \in Roots : Reachable(s)' = Reachable(s)
  BY ZenonT(60), <1>0, SameTree DEF Kept
<1>1. CASE op' = [op EXCEPT !.do = "undo"] /\ UNCHANGED <<free_map, dmap>>
  <2>1. op' \in Ops /\ op'.do = "undo" /\ op'.sector = op.sector /\ op'.start = 0
    BY <1>0, <1>a, <1>1, WhileUp DEF Ops, Steps
  <2>2. TakenInode' = {op.sector} /\ TakenData' = {} /\ Taken' = {op.sector}
    BY <2>1, TakenNext DEF Taken
  <2>3. OpInv'
    BY <1>0, <1>1, <1>a, <1>b, <2>1, <2>2 DEF OpInv, Creating, System
  <2>4. op.do # "erase" /\ op'.do \notin {"zeros", "look", "add", "erase"}
    BY <1>0, <2>1
  <2> QED BY ZenonT(60), <1>0, <1>1, <1>b, <2>1, <2>3, <2>4, WhileUp, Carried
<1>2. CASE /\ s2 # Null /\ free_map' = free_map \cup Run(s2, op.size) /\ dmap' = free_map'
           /\ op' = [op EXCEPT !.do = "put_inode", !.start = s2]
  <2>1. s2 \in Sectors /\ Run(s2, op.size) \subseteq Sectors /\ Run(s2, op.size) \cap free_map = {}
    BY <1>0, <1>2, FirstRunIsFree, WhileUp
  <2> HIDE DEF s2
  <2>2. /\ op' \in Ops /\ op'.do = "put_inode" /\ op'.sector = op.sector
        /\ op'.name = op.name /\ op'.start = s2 /\ op'.k = op.k /\ op'.size = op.size
    BY ZenonT(60), <1>0, <1>2, <2>1, WhileUp DEF Ops, Steps
  <2>3. TakenInode' = {op.sector} /\ TakenData' = Run(s2, op.size) /\ Taken' = {op.sector} \cup Run(s2, op.size)
    BY <2>2, TakenNext DEF Taken, Creating
  <2>4. op'.do \notin {"idle", "alloc_inode", "alloc_data", "zeros", "look", "add", "erase"} /\ op.do # "erase"
    BY <1>0, <2>2
  <2>5. /\ Taken' \subseteq free_map' \ System /\ TakenInode' \cap TakenData' = {}
        /\ \A s \in Roots : Taken' \cap Reachable(s) = {}
    BY <1>0, <1>2, <1>a, <2>1, <2>3, WhileUp
  <2>6. OpInv'
    BY ZenonT(60), <1>0, <1>a, <1>b, <2>2, <2>4, <2>5 DEF OpInv, System
  <2>7. /\ dmap' \subseteq Sectors /\ free_map' \subseteq dmap' /\ System \subseteq free_map'
        /\ \A s \in Roots : Reachable(s) \subseteq free_map'
    BY ZenonT(60), <1>0, <1>2, <2>1, WhileUp
  <2> QED BY ZenonT(60), <1>0, <1>b, <2>2, <2>4, <2>6, <2>7, WhileUp, Carried
<1> QED BY ZenonT(60), <1>0, <1>1, <1>2

(* inode_create writes an inode that nothing refers to yet.                  *)
LEMMA PutInodeInv ==
    ASSUME Sane, DiskInv, PutInode
    PROVE  DiskInv'
<1>0. /\ up /\ op.do = "put_inode"
      /\ dinode' = [dinode EXCEPT ![op.sector] = [start |-> op.start, len |-> op.size]]
      /\ written' = written \ {op.sector}
      /\ op' = [op EXCEPT !.do = "zeros"]
      /\ UNCHANGED <<dmap, slot, dirty, up, free_map, open, files, stops, leaked>>
  BY ZenonT(60) DEF PutInode, At, Do, memory
<1>1. TakenInode = {op.sector} /\ TakenData = Run(op.start, op.size)
  BY <1>0, TakenFacts DEF Creating
<1>2. op.sector \notin Roots
  <2>1. op.sector \in Reachable(op.sector)
    BY ZenonT(60) DEF Reachable
  <2> QED BY ZenonT(60), <1>1, <2>1 DEF DiskInv, OpInv, Taken
<1>3. Kept
  BY <1>0, <1>2, WhileUp DEF Kept
<1>4. /\ op' \in Ops /\ op'.do = "zeros" /\ op'.sector = op.sector
      /\ op'.name = op.name /\ op'.start = op.start /\ op'.k = op.k /\ op'.size = op.size
  BY <1>0, WhileUp DEF Ops, Steps
<1>5. /\ dinode' \in [Sectors -> Inodes]
      /\ dinode'[op.sector] = [start |-> op.start, len |-> op.size]
  BY <1>0, WhileUp DEF Inodes
<1>6. TakenInode' = TakenInode /\ TakenData' = TakenData /\ Taken' = Taken
  BY <1>1, <1>4, TakenNext DEF Taken, Creating
<1>7. OpInv'
  BY <1>0, <1>3, <1>4, <1>5, <1>6, SameTree DEF OpInv, DiskInv, Creating, System
<1>8. op.k = 0 /\ Run(op.start, 0) = {}
  BY <1>0, WhileUp, SectorFacts DEF DiskInv, OpInv
<1>9. op'.sector \notin written' /\ op'.k <= op'.size /\ Run(op'.start, op'.k) \cap dirty' = {}
  BY <1>0, <1>4, <1>8, WhileUp
<1>10. op.do # "erase" /\ op'.do \notin {"look", "add", "erase"}
  BY <1>0, <1>4
<1>11. \A s \in Named : s \notin written' => s \notin written
  BY ZenonT(60), <1>0, <1>2 DEF Roots
<1> QED BY ZenonT(60), <1>0, <1>3, <1>4, <1>5, <1>7, <1>9, <1>10, <1>11, WhileUp, Carried

(* While filesys_create has an inode: its name, its sectors, and where it    *)
(* may still be told to undo.                                                *)
LEMMA CreatingFacts ==
    ASSUME Sane, DiskInv, up, op.do \in Creating
    PROVE  /\ op.name \in Names /\ op.sector \notin Run(op.start, op.size)
           /\ Taken = {op.sector} \cup Run(op.start, op.size)
           /\ op.start = 0 => op.size = 0 /\ Run(op.start, op.size) = {}
           /\ op.do # "put_inode" => dinode[op.sector] = [start |-> op.start, len |-> op.size]
<1>1. TakenInode = {op.sector} /\ TakenData = Run(op.start, op.size)
  BY TakenFacts
<1>2. op.name \in Names /\ op.sector \notin Run(op.start, op.size)
  BY <1>1 DEF DiskInv, OpInv
<1>3. op.start = 0 => op.size = 0
  <2>1. op.start = 0 /\ op.size # 0 => 0 \in Run(op.start, op.size)
    BY WhileUp DEF Run
  <2>2. Run(op.start, op.size) \cap System = {} /\ 0 \in System
    BY ZenonT(60), <1>1, SectorFacts DEF DiskInv, OpInv, Taken
  <2> QED BY ZenonT(60), <2>1, <2>2
<1>4. op.do # "put_inode" => dinode[op.sector] = [start |-> op.start, len |-> op.size]
  BY DEF DiskInv, OpInv, Creating
<1> QED BY <1>1, <1>2, <1>3, <1>4, WhileUp, SectorFacts DEF Taken

(* inode_create zeroes one sector after the other.                           *)
LEMMA ZerosInv ==
    ASSUME Sane, DiskInv, Zeros
    PROVE  DiskInv'
<1>0. /\ up /\ op.do = "zeros"
      /\ UNCHANGED <<dmap, dinode, slot, up, free_map, open, files, stops, leaked, written>>
      /\ \/ op.k = op.size /\ op' = [op EXCEPT !.do = "look"] /\ UNCHANGED dirty
         \/ /\ op.k # op.size /\ op' = [op EXCEPT !.k = @ + 1]
            /\ dirty' = dirty \ {op.start + op.k}
  BY ZenonT(60) DEF Zeros, At, Do, memory, ghosts
<1>a. Kept
  BY <1>0 DEF Kept
<1>b. op.sector \notin written /\ op.k <= op.size /\ Run(op.start, op.k) \cap dirty = {}
  BY <1>0 DEF DiskInv, ZeroInv
<1>1. /\ op' \in Ops /\ op'.do \in {"zeros", "look"} /\ op'.sector = op.sector
      /\ op'.name = op.name /\ op'.start = op.start /\ op'.size = op.size
  BY <1>0, WhileUp DEF Ops, Steps
<1>2. TakenInode' = TakenInode /\ TakenData' = TakenData /\ Taken' = Taken
  BY <1>0, <1>1, TakenFacts, TakenNext DEF Taken, Creating
<1>3. OpInv'
  BY <1>0, <1>a, <1>1, <1>2, SameTree DEF OpInv, DiskInv, Creating, System
<1>4. op'.do = "look" => Run(op'.start, op'.size) \cap dirty' = {}
  <2>1. op'.do = "look" => op.k = op.size /\ dirty' = dirty
    BY <1>0, WhileUp DEF Ops
  <2> QED BY ZenonT(60), <2>1, <1>1, <1>b
<1>5. op'.do = "zeros" => op'.k <= op'.size /\ Run(op'.start, op'.k) \cap dirty' = {}
  <2> SUFFICES ASSUME op'.do = "zeros" PROVE op'.k <= op'.size /\ Run(op'.start, op'.k) \cap dirty' = {}
    BY ZenonT(60)
  <2>1. op.k # op.size /\ op'.k = op.k + 1 /\ dirty' = dirty \ {op.start + op.k}
    BY <1>0, WhileUp DEF Ops
  <2>2. Run(op.start, op.k + 1) \subseteq Run(op.start, op.k) \cup {op.start + op.k}
    <3>1. op.start \in Nat /\ op.k \in Nat
      BY ZenonT(60), <1>0, WhileUp, SectorFacts
    <3> QED BY <3>1 DEF Run
  <2> QED BY <2>1, <2>2, <1>1, <1>b, <1>0, WhileUp
<1>6. dirty' \subseteq dirty
  BY <1>0
<1>7. op.do # "erase" /\ op'.do \notin {"add", "erase"}
  BY <1>0, <1>1
<1> QED BY ZenonT(60), <1>0, <1>a, <1>b, <1>1, <1>3, <1>4, <1>5, <1>6, <1>7, WhileUp, Carried

(* dir_add looks for the name: goes on, or filesys_create must undo.         *)
LEMMA LookInv ==
    ASSUME Sane, DiskInv, Look
    PROVE  DiskInv'
<1>0. /\ up /\ op.do = "look"
      /\ UNCHANGED <<dmap, dinode, slot, dirty, up, free_map, open, files, stops, leaked, written>>
      /\ op' = [op EXCEPT !.do = "add"] \/ op' = [op EXCEPT !.do = "undo"]
  <2>1. PICK found \in lookup(op.name) :
          op' = [op EXCEPT !.do = IF found = Null /\ op.name \notin BadNames THEN "add" ELSE "undo"]
    BY ZenonT(60) DEF Look, Do
  <2> QED BY ZenonT(60), <2>1 DEF Look, At, disk, memory, ghosts
<1>a. Kept
  BY <1>0 DEF Kept
<1>b. op.sector \notin written /\ Run(op.start, op.size) \cap dirty = {}
  BY <1>0 DEF DiskInv, ZeroInv
<1>1. /\ op' \in Ops /\ op'.do \in {"add", "undo"} /\ op'.sector = op.sector
      /\ op'.name = op.name /\ op'.start = op.start /\ op'.size = op.size
  BY <1>0, WhileUp DEF Ops, Steps
<1>2. TakenInode' = TakenInode /\ TakenData' = TakenData /\ Taken' = Taken
  <2>1. op.start = 0 => Run(op.start, op.size) = {}
    BY <1>0, CreatingFacts DEF Creating
  <2> QED BY <1>0, <1>1, <2>1, TakenFacts, TakenNext DEF Taken, Creating
<1>3. OpInv'
  BY <1>0, <1>a, <1>1, <1>2, SameTree DEF OpInv, DiskInv, Creating, System
<1>4. op.do # "erase" /\ op'.do \notin {"zeros", "look", "erase"}
  BY <1>0, <1>1
<1> QED BY ZenonT(60), <1>0, <1>a, <1>b, <1>1, <1>3, <1>4, WhileUp, Carried

(* The sectors an operation gives back.                                      *)
LEMMA ReleasedInv ==
    ASSUME Sane, DiskInv, up, NEW S, free_map_release(S), S \subseteq Taken
    PROVE  /\ free_map' = free_map \ S
           /\ dmap' \subseteq Sectors /\ free_map' \subseteq dmap' /\ System \subseteq free_map'
           /\ \A s \in Roots : Reachable(s) \subseteq free_map'
<1>1. free_map' = free_map \ S /\ (dmap' = free_map' \/ dmap' = dmap)
  BY ZenonT(60) DEF free_map_release
<1>2. Taken \cap System = {} /\ \A s \in Roots : Taken \cap Reachable(s) = {}
  BY ZenonT(60) DEF DiskInv, OpInv
<1> QED BY ZenonT(60), <1>1, <1>2, WhileUp

(* A failed create gives back the sector of its inode.                       *)
LEMMA UndoInv ==
    ASSUME Sane, DiskInv, Undo
    PROVE  DiskInv'
<1>0. /\ up /\ op.do = "undo" /\ free_map_release({op.sector}) /\ op' = Idle
      /\ UNCHANGED <<dinode, slot, dirty, up, open, files, stops, written>>
  BY ZenonT(60) DEF Undo, At, Finish
<1>1. {op.sector} \subseteq Taken
  BY <1>0, TakenFacts DEF Taken
<1>2. op' \in Ops /\ op'.do = "idle"
  BY <1>0, SectorFacts DEF Idle, Ops, Steps
<1>3. TakenInode' = {} /\ TakenData' = {} /\ Taken' = {}
  BY ZenonT(60), <1>2, TakenNext DEF Taken
<1>4. OpInv'
  BY <1>0, <1>2, <1>3 DEF OpInv, Creating, Idle
<1>5. op.do # "erase" /\ op'.do \notin {"zeros", "look", "add", "erase"}
  BY <1>0, <1>2
<1>6. Kept
  BY <1>0 DEF Kept
<1> QED BY ZenonT(60), <1>0, <1>1, <1>2, <1>4, <1>5, <1>6, WhileUp, ReleasedInv, Carried

(* inode_close of a removed inode gives back the inode's sector ...          *)
LEMMA ReleaseInodeInv ==
    ASSUME Sane, DiskInv, ReleaseInode
    PROVE  DiskInv'
<1>0. /\ up /\ op.do = "release_inode" /\ free_map_release({op.sector})
      /\ op' = [op EXCEPT !.do = "release_data"] /\ written' = written \ {op.sector}
      /\ UNCHANGED <<dinode, slot, dirty, up, open, files, stops>>
  BY ZenonT(60) DEF ReleaseInode, At, Do
<1>1. TakenInode = {op.sector} /\ TakenData = Run(op.start, op.size) /\ {op.sector} \subseteq Taken
  BY <1>0, TakenFacts DEF Taken
<1>2. op' \in Ops /\ op'.do = "release_data" /\ op'.start = op.start /\ op'.size = op.size
  BY <1>0, WhileUp DEF Ops, Steps
<1>3. TakenInode' = {} /\ TakenData' = TakenData /\ Taken' = TakenData
  BY ZenonT(60), <1>1, <1>2, TakenNext DEF Taken
<1>6. Kept
  BY <1>0 DEF Kept
<1>7. op.do # "erase" /\ op'.do \notin {"idle", "zeros", "look", "add", "erase", "alloc_inode", "alloc_data"} \cup Creating
  BY <1>0, <1>2 DEF Creating
<1>8. Taken' \subseteq free_map' \ System
  <2>1. TakenData \subseteq free_map \ System /\ TakenInode \cap TakenData = {}
    BY ZenonT(60) DEF DiskInv, OpInv, Taken
  <2>2. free_map' = free_map \ {op.sector}
    BY ZenonT(60), <1>0, <1>1, ReleasedInv
  <2> QED BY ZenonT(60), <1>1, <1>3, <2>1, <2>2
<1>4. OpInv'
  <2>1. op'.do # "idle" /\ op'.do \notin {"zeros", "look", "add"} /\ op'.do \notin {"alloc_inode", "alloc_data"}
        /\ op'.do \notin {"alloc_inode", "alloc_data"} \cup Creating /\ op'.do \notin {"alloc_inode", "alloc_data", "put_inode"}
    BY <1>2 DEF Creating
  <2>2. \A s \in Roots : Taken' \cap Reachable(s) = {}
    BY ZenonT(60), <1>3 DEF DiskInv, OpInv, Taken
  <2>3. TakenInode' \cap TakenData' = {}
    BY <1>3
  <2> QED BY ZenonT(60), <1>0, <1>6, <1>8, <2>1, <2>2, <2>3, SameTree DEF OpInv, System
<1>9. op.sector \notin Roots
  <2>1. op.sector \in Reachable(op.sector)
    BY ZenonT(60) DEF Reachable
  <2> QED BY ZenonT(60), <1>1, <2>1 DEF DiskInv, OpInv, Taken
<1>10. \A s \in Named : s \notin written' => s \notin written
  BY ZenonT(60), <1>0, <1>9 DEF Roots
<1>11. op'.do \notin {"zeros", "look", "add"} /\ op'.do # "zeros" /\ op'.do # "erase" /\ op'.do \notin {"look", "add"}
  BY <1>2
<1> QED BY ZenonT(60), <1>0, <1>1, <1>2, <1>4, <1>6, <1>7, <1>10, <1>11, WhileUp, ReleasedInv, Carried

(* ... and then those of its data.                                           *)
LEMMA ReleaseDataInv ==
    ASSUME Sane, DiskInv, ReleaseData
    PROVE  DiskInv'
<1>0. /\ up /\ op.do = "release_data" /\ free_map_release(Run(op.start, op.size)) /\ op' = Idle
      /\ UNCHANGED <<dinode, slot, dirty, up, open, files, stops, written>>
  BY ZenonT(60) DEF ReleaseData, At, Finish, ghosts
<1>1. Run(op.start, op.size) \subseteq Taken
  BY <1>0, TakenFacts DEF Taken
<1>2. op' \in Ops /\ op'.do = "idle"
  BY <1>0, SectorFacts DEF Idle, Ops, Steps
<1>3. TakenInode' = {} /\ TakenData' = {} /\ Taken' = {}
  BY ZenonT(60), <1>2, TakenNext DEF Taken
<1>4. OpInv'
  BY <1>0, <1>2, <1>3 DEF OpInv, Creating, Idle
<1>5. op.do # "erase" /\ op'.do \notin {"zeros", "look", "add", "erase"}
  BY <1>0, <1>2
<1>6. Kept
  BY <1>0 DEF Kept
<1> QED BY ZenonT(60), <1>0, <1>1, <1>2, <1>4, <1>5, <1>6, WhileUp, ReleasedInv, Carried

-----------------------------------------------------------------------------
(* dir_add writes its entry: the new inode joins the ones in use, and what   *)
(* it refers to is what filesys_create had taken.                            *)
LEMMA NameAdded ==
    ASSUME Sane, DiskInv, up, op.do = "add", NEW k \in Slots,
           slot' = [slot EXCEPT ![k] = [name |-> op.name, sector |-> op.sector]], op' = Idle,
           UNCHANGED <<dmap, dinode, dirty, up, free_map, open, files, stops, written>>
    PROVE  DiskInv'
<1>0. /\ op.name \in Names /\ op.sector \notin Run(op.start, op.size)
      /\ Taken = {op.sector} \cup Run(op.start, op.size)
      /\ dinode[op.sector] = [start |-> op.start, len |-> op.size]
  BY CreatingFacts DEF Creating
<1>1. Data(op.sector) = Run(op.start, op.size) /\ Reachable(op.sector) = Taken
  BY <1>0 DEF Data, Reachable
<1>2. \A s : Reachable(s)' = Reachable(s) /\ Data(s)' = Data(s)
  BY ZenonT(60) DEF Reachable, Data
<1>3. slot \in [Slots -> Entries \cup {Null}]
  BY DEF DiskInv, TypeInv
<1>4. /\ slot' \in [Slots -> Entries \cup {Null}]
      /\ slot'[k].sector = op.sector /\ slot'[k] # Null
      /\ \A j \in Slots : j # k => slot'[j] = slot[j]
  <2>1. [name |-> op.name, sector |-> op.sector] \in Entries
    BY <1>0, WhileUp DEF Entries
  <2> QED BY <2>1, <1>3, SectorFacts
<1>5. Opened' = Opened
  BY ZenonT(60) DEF Opened
<1>6. Named' \subseteq Named \cup {op.sector}
  BY ZenonT(60), <1>4 DEF Named
<1>7. Roots' \subseteq Roots \cup {op.sector}
  BY ZenonT(60), <1>5, <1>6 DEF Roots
<1>8. op.sector \notin Roots
  <2>1. op.sector \in Reachable(op.sector)
    BY ZenonT(60) DEF Reachable
  <2> QED BY ZenonT(60), <1>1, <2>1 DEF DiskInv, OpInv
<1>9. op' \in Ops /\ op'.do = "idle" /\ TakenInode' = {} /\ TakenData' = {} /\ Taken' = {}
  <2>1. op' \in Ops /\ op'.do = "idle"
    BY SectorFacts DEF Idle, Ops, Steps
  <2> QED BY ZenonT(60), <2>1, TakenNext DEF Taken
<1>10. TypeInv'
  BY ZenonT(60), <1>4, <1>9 DEF DiskInv, TypeInv
<1>11. /\ Taken \subseteq free_map \ System
       /\ \A s \in Roots : Taken \cap Reachable(s) = {} /\ Reachable(s) \subseteq free_map \ System
       /\ free_map \subseteq dmap /\ System \subseteq free_map /\ dmap # {} /\ System' = System
  BY ZenonT(60), SectorFacts, WhileUp DEF DiskInv, OpInv, MapInv, System
<1>12. MapInv'
  <2>1. (\A s \in Roots : Reachable(s) \subseteq free_map \ System)'
    BY ZenonT(60), <1>1, <1>2, <1>7, <1>11
  <2>2. (\A s \in Named : Reachable(s) \subseteq dmap \ System)'
    BY ZenonT(60), <2>1, <1>11 DEF Roots
  <2>3. (\A s \in Roots : s \notin Data(s))'
    BY ZenonT(60), <1>0, <1>1, <1>2, <1>7 DEF DiskInv, MapInv
  <2>4. (\A r, s \in Roots : r # s => Reachable(r) \cap Reachable(s) = {})'
    <3> SUFFICES ASSUME NEW r \in Roots', NEW s \in Roots', r # s PROVE Reachable(r) \cap Reachable(s) = {}
      BY ZenonT(60), <1>2
    <3>1. CASE r \in Roots /\ s \in Roots
      BY ZenonT(60), <3>1 DEF DiskInv, MapInv
    <3>2. CASE r = op.sector /\ s \in Roots
      BY ZenonT(60), <3>2, <1>1, <1>11
    <3>3. CASE r \in Roots /\ s = op.sector
      BY ZenonT(60), <3>3, <1>1, <1>11
    <3> QED BY ZenonT(60), <3>1, <3>2, <3>3, <1>7
  <2>5. \A j \in Slots : slot[j] # Null => slot[j].sector \in Roots
    BY ZenonT(60) DEF Roots, Named
  <2>6. (\A i, j \in Slots : (slot[i] # Null /\ slot[j] # Null /\ slot[i].sector = slot[j].sector) => i = j)'
    BY ZenonT(60), <2>5, <1>4, <1>8 DEF DiskInv, MapInv
  <2>7. (dmap = {} => ~up /\ Named = {})' /\ (dmap # {} => System \subseteq dmap)'
        /\ (up => System \subseteq free_map /\ free_map \subseteq dmap)'
    BY ZenonT(60), <1>11
  <2> QED BY ZenonT(60), <2>1, <2>2, <2>3, <2>4, <2>6, <2>7 DEF MapInv
<1>13. OpInv'
  BY <1>9 DEF OpInv, Creating, Idle
<1>14. OpenInv'
  <2>1. \A s : Opens(s)' = Opens(s) /\ ~Erasing(s) /\ ~Erasing(s)'
    BY ZenonT(60), <1>9 DEF Opens, Erasing
  <2>2. op.sector \notin Opened
    BY ZenonT(60), <1>8 DEF Roots
  <2>3. (\A s \in Opened : open[s].removed => s \notin Named)'
    BY ZenonT(60), <2>2, <1>5, <1>6 DEF DiskInv, OpenInv
  <2>4. op'.do # "erase"
    BY <1>9
  <2> QED BY ZenonT(60), <1>5, <2>1, <2>3, <2>4 DEF DiskInv, OpenInv
<1>15. ZeroInv'
  <2>1. op.sector \notin written /\ Data(op.sector) \cap dirty = {}
    BY ZenonT(60), <1>1 DEF DiskInv, ZeroInv
  <2>2. (\A s \in Named : s \notin written => Data(s) \cap dirty = {})'
    BY ZenonT(60), <2>1, <1>2, <1>6 DEF DiskInv, ZeroInv
  <2>3. op'.do \notin {"zeros", "look", "add"}
    BY <1>9
  <2> QED BY ZenonT(60), <2>2, <2>3 DEF ZeroInv
<1> QED BY ZenonT(60), <1>10, <1>12, <1>13, <1>14, <1>15 DEF DiskInv

(* dir_add fails after the inode was made: filesys_create must undo.         *)
LEMMA UndoBegins ==
    ASSUME Sane, DiskInv, up, op.do = "add", op' = [op EXCEPT !.do = "undo"],
           UNCHANGED <<dmap, dinode, slot, dirty, up, free_map, open, files, stops, written>>
    PROVE  DiskInv'
<1>1. /\ op' \in Ops /\ op'.do = "undo" /\ op'.sector = op.sector
      /\ op'.start = op.start /\ op'.size = op.size
  BY WhileUp DEF Ops, Steps
<1>2. TakenInode' = TakenInode /\ TakenData' = TakenData /\ Taken' = Taken
  <2>1. op.start = 0 => Run(op.start, op.size) = {}
    BY CreatingFacts DEF Creating
  <2> QED BY <1>1, <2>1, TakenFacts, TakenNext DEF Taken, Creating
<1>a. Kept
  BY DEF Kept
<1>3. OpInv'
  BY <1>a, <1>1, <1>2, SameTree DEF OpInv, DiskInv, Creating, System
<1>4. op.do # "erase" /\ op'.do \notin {"zeros", "look", "add", "erase"}
  BY <1>1
<1> QED BY ZenonT(60), <1>a, <1>1, <1>3, <1>4, WhileUp, Carried

(* dir_add writes the entry, finds the directory full, or has no memory.     *)
LEMMA AddInv ==
    ASSUME Sane, DiskInv, Add
    PROVE  DiskInv'
<1>1. /\ up /\ op.do = "add"
      /\ UNCHANGED <<dmap, dinode, dirty, up, free_map, open, files, stops, written>>
  BY ZenonT(60) DEF Add, At, memory, ghosts
<1>2. \/ \E k \in Slots : slot' = [slot EXCEPT ![k] = [name |-> op.name, sector |-> op.sector]] /\ op' = Idle
      \/ op' = [op EXCEPT !.do = "undo"] /\ slot' = slot
  BY ZenonT(60) DEF Add, Do, Finish
<1> QED BY ZenonT(60), <1>1, <1>2, NameAdded, UndoBegins

-----------------------------------------------------------------------------
INSTANCE FiniteSetTheorems

(* inode_open of a named inode: it is open afterwards, once more than before,*)
(* with what its inode on disk says, and it is not removed.                  *)
LEMMA InodeOpened ==
    ASSUME Sane, DiskInv, NEW s \in Named, open' = inode_open(s), UNCHANGED <<dinode, slot>>
    PROVE  /\ s \in Sectors /\ open' \in [Sectors -> Handles \cup {Null}]
           /\ Opened' = Opened \cup {s} /\ Named' = Named /\ Roots' = Roots
           /\ \A r \in Sectors : r # s => open'[r] = open[r]
           /\ open'[s].start = dinode[s].start /\ open'[s].len = dinode[s].len /\ ~open'[s].removed
           /\ s \in Opened => open'[s].cnt = open[s].cnt + 1
           /\ s \notin Opened => open'[s].cnt = 1
<1>1. open \in [Sectors -> Handles \cup {Null}] /\ dinode \in [Sectors -> Inodes]
  BY DEF DiskInv, TypeInv
<1>2. s \in Sectors
  <2>1. PICK k \in Slots : slot[k] # Null /\ s = slot[k].sector
    BY ZenonT(60) DEF Named
  <2>2. slot[k] \in Entries
    BY ZenonT(60), <2>1 DEF DiskInv, TypeInv
  <2> QED BY <2>1, <2>2 DEF Entries
<1>3. s \in Opened <=> open[s] # Null
  BY ZenonT(60), <1>2 DEF Opened
<1>4. s \in Opened => /\ open[s] \in Handles /\ ~open[s].removed
                      /\ open[s].start = dinode[s].start /\ open[s].len = dinode[s].len
  <2>1. s \in Opened => open[s] \in Handles
    BY ZenonT(60), <1>1, <1>2, <1>3
  <2> QED BY ZenonT(60), <2>1 DEF DiskInv, OpenInv
<1> DEFINE new == IF open[s] = Null
                  THEN [cnt |-> 1, removed |-> FALSE, start |-> dinode[s].start, len |-> dinode[s].len]
                  ELSE [open[s] EXCEPT !.cnt = open[s].cnt + 1]
<1>5. open' = [open EXCEPT ![s] = new]
  BY ZenonT(60) DEF inode_open
<1>6. /\ new \in Handles /\ ~new.removed /\ new.start = dinode[s].start /\ new.len = dinode[s].len
      /\ s \in Opened => new.cnt = open[s].cnt + 1
      /\ s \notin Opened => new.cnt = 1
  <2>1. dinode[s].start \in Sectors /\ dinode[s].len \in Nat
    BY <1>1, <1>2 DEF Inodes
  <2> QED BY <2>1, <1>3, <1>4 DEF Handles
<1> HIDE DEF new
<1>7. /\ open' \in [Sectors -> Handles \cup {Null}] /\ open'[s] = new /\ new # Null
      /\ \A r \in Sectors : r # s => open'[r] = open[r]
  BY <1>1, <1>2, <1>5, <1>6, SectorFacts
<1>8. Opened' = Opened \cup {s}
  BY ZenonT(60), <1>2, <1>7 DEF Opened
<1>9. Named' = Named
  BY ZenonT(60) DEF Named
<1> QED BY ZenonT(60), <1>2, <1>6, <1>7, <1>8, <1>9 DEF Roots

(* inode_close of an open inode: one opener less, and the last one takes it  *)
(* off open_inodes.                                                          *)
LEMMA InodeClosed ==
    ASSUME Sane, DiskInv, NEW s \in Opened, open' = inode_close(s)
    PROVE  /\ open' \in [Sectors -> Handles \cup {Null}]
           /\ \A r \in Sectors : r # s => open'[r] = open[r]
           /\ open[s].cnt = 1 => Opened' = Opened \ {s}
           /\ open[s].cnt # 1 => /\ Opened' = Opened /\ open'[s].cnt = open[s].cnt - 1
                                 /\ open'[s].removed = open[s].removed
                                 /\ open'[s].start = open[s].start /\ open'[s].len = open[s].len
<1>1. open \in [Sectors -> Handles \cup {Null}] /\ s \in Sectors /\ open[s] # Null
  BY ZenonT(60) DEF DiskInv, TypeInv, Opened
<1>2. open[s] \in Handles /\ open[s].cnt > 0
  BY ZenonT(60), <1>1 DEF DiskInv, OpenInv
<1> DEFINE new == IF open[s].cnt = 1 THEN Null ELSE [open[s] EXCEPT !.cnt = open[s].cnt - 1]
<1>3. open' = [open EXCEPT ![s] = new]
  BY ZenonT(60) DEF inode_close
<1>4. /\ open[s].cnt = 1 => new = Null
      /\ open[s].cnt # 1 => /\ new \in Handles /\ new.cnt = open[s].cnt - 1
                            /\ new.removed = open[s].removed
                            /\ new.start = open[s].start /\ new.len = open[s].len
  BY <1>2 DEF Handles
<1> HIDE DEF new
<1>5. /\ open' \in [Sectors -> Handles \cup {Null}] /\ open'[s] = new
      /\ \A r \in Sectors : r # s => open'[r] = open[r]
  BY <1>1, <1>3, <1>4
<1>6. open[s].cnt = 1 => Opened' = Opened \ {s}
  BY ZenonT(60), <1>1, <1>4, <1>5 DEF Opened
<1>7. open[s].cnt # 1 => Opened' = Opened
  <2>1. open[s].cnt # 1 => open'[s] # Null
    BY ZenonT(60), <1>4, <1>5, SectorFacts
  <2> QED BY ZenonT(60), <2>1, <1>1, <1>5 DEF Opened
<1> QED BY ZenonT(60), <1>4, <1>5, <1>6, <1>7

(* The openers of an inode: none of one that is not open.                    *)
LEMMA OpensFacts ==
    ASSUME DiskInv, NEW s
    PROVE  /\ IsFiniteSet(Opens(s)) /\ Cardinality(Opens(s)) \in Nat
           /\ s \notin Opened => Opens(s) = {} /\ Cardinality(Opens(s)) = 0
           /\ Cardinality(Opens(s)) = 0 => Opens(s) = {}
<1>1. IsFiniteSet(files) /\ Opens(s) \subseteq files
  BY ZenonT(60) DEF DiskInv, TypeInv, Opens
<1>2. s \notin Opened => Opens(s) = {}
  BY ZenonT(60) DEF DiskInv, OpenInv, Opens
<1> QED BY ZenonT(60), <1>1, <1>2, FS_Subset, FS_CardinalityType, FS_EmptySet

(* A step that opens, closes or erases uses no inode that was not in use.    *)
LEMMA TreeShrinks ==
    ASSUME Sane, DiskInv, up, UNCHANGED <<dmap, dinode, up, free_map>>,
           \A k \in Slots : slot'[k] = slot[k] \/ slot'[k] = Null, Opened' \subseteq Roots
    PROVE  /\ Named' \subseteq Named /\ Roots' \subseteq Roots
           /\ \A s : Reachable(s)' = Reachable(s) /\ Data(s)' = Data(s)
           /\ MapInv'
<1>1. Named' \subseteq Named
  BY ZenonT(60) DEF Named
<1>2. Roots' \subseteq Roots
  BY ZenonT(60), <1>1 DEF Roots
<1>3. \A s : Reachable(s)' = Reachable(s) /\ Data(s)' = Data(s)
  BY ZenonT(60) DEF Reachable, Data
<1>4. System' = System
  BY DEF System
<1>5. (\A i, j \in Slots : (slot[i] # Null /\ slot[j] # Null /\ slot[i].sector = slot[j].sector) => i = j)'
  <2> SUFFICES ASSUME NEW i \in Slots, NEW j \in Slots, slot'[i] # Null, slot'[j] # Null, slot'[i].sector = slot'[j].sector
               PROVE  i = j
    BY ZenonT(60)
  <2>1. slot'[i] = slot[i] /\ slot'[j] = slot[j]
    BY ZenonT(60)
  <2> QED BY ZenonT(60), <2>1 DEF DiskInv, MapInv
<1>6. (dmap = {} => ~up /\ Named = {})' /\ (dmap # {} => System \subseteq dmap)'
      /\ (\A s \in Named : Reachable(s) \subseteq dmap \ System)'
      /\ (up => System \subseteq free_map /\ free_map \subseteq dmap)'
  BY ZenonT(60), <1>1, <1>3, <1>4 DEF DiskInv, MapInv
<1>7. (up => \A s \in Roots : Reachable(s) \subseteq free_map \ System)' /\ (\A s \in Roots : s \notin Data(s))'
      /\ (\A r, s \in Roots : r # s => Reachable(r) \cap Reachable(s) = {})'
  BY ZenonT(60), <1>2, <1>3, <1>4 DEF DiskInv, MapInv
<1>8. MapInv'
  BY ZenonT(60), <1>5, <1>6, <1>7 DEF MapInv
<1> QED BY ZenonT(60), <1>1, <1>2, <1>3, <1>8

(* Clean data stays clean while nothing is written.                          *)
LEMMA CleanShrinks ==
    ASSUME DiskInv, UNCHANGED <<dirty, written>>, Named' \subseteq Named, \A s : Data(s)' = Data(s),
           op'.do \notin {"zeros", "look", "add"}
    PROVE  ZeroInv'
<1>1. (\A s \in Named : s \notin written => Data(s) \cap dirty = {})'
  BY ZenonT(60) DEF DiskInv, ZeroInv
<1> QED BY ZenonT(60), <1>1 DEF ZeroInv

(* An operation that has nothing in hand.                                    *)
LEMMA HandsEmpty ==
    ASSUME op' = Idle \/ op'.do = "erase", ~up' => op' = Idle
    PROVE  OpInv'
<1>1. op'.do \in {"idle", "erase"}
  BY DEF Idle
<1>2. TakenInode' = {} /\ TakenData' = {} /\ Taken' = {}
  BY ZenonT(60), <1>1, TakenNext DEF Taken
<1> QED BY <1>1, <1>2 DEF OpInv, Creating, Idle

(* A new struct file is none of those there are.                             *)
LEMMA NewFileIsNew ==
    ASSUME Sane, HaveMinima, DiskInv, Cardinality(files) < MaxFiles
    PROVE  LET id == Min(1 .. MaxFiles \ {f.id : f \in files})
           IN  id \in 1 .. MaxFiles /\ \A f \in files : f.id # id
<1> DEFINE ids == {f.id : f \in files}
           m == [f \in files |-> f.id]
<1>1. IsFiniteSet(files) /\ MaxFiles \in Nat
  BY ZenonT(60) DEF DiskInv, TypeInv, Sane
<1>2. m \in Surjection(files, ids)
  BY DEF Surjection
<1>3. IsFiniteSet(ids) /\ Cardinality(ids) <= Cardinality(files)
  <2> HIDE DEF m, ids
  <2> QED BY ZenonT(60), <1>1, <1>2, FS_Surjection
<1>4. Cardinality(1 .. MaxFiles) = MaxFiles
  BY <1>1, FS_Interval
<1>5. Cardinality(ids) \in Nat /\ Cardinality(files) \in Nat
  BY ZenonT(60), <1>1, <1>3, FS_CardinalityType
<1>6. 1 .. MaxFiles \ ids # {}
  <2> SUFFICES ASSUME 1 .. MaxFiles \subseteq ids PROVE FALSE
    BY ZenonT(60)
  <2>1. Cardinality(1 .. MaxFiles) <= Cardinality(ids)
    <3> HIDE DEF ids
    <3> QED BY ZenonT(60), <1>3, FS_Subset
  <2> QED BY <2>1, <1>1, <1>3, <1>4, <1>5
<1>7. Min(1 .. MaxFiles \ ids) \in 1 .. MaxFiles \ ids
  <2>1. 1 .. MaxFiles \ ids \subseteq Nat
    BY <1>1
  <2> HIDE DEF ids
  <2> QED BY ZenonT(60), <2>1, <1>6, MinIsIn
<1> QED BY ZenonT(60), <1>7

(* filesys_open of a name: the inode is open once more, for one more file.   *)
LEMMA OpenFileInv ==
    ASSUME Sane, HaveMinima, DiskInv, NEW name, filesys_open(name)
    PROVE  DiskInv'
<1>0. PICK k \in lookup(name) :
        /\ k # Null /\ open' = inode_open(slot[k].sector)
        /\ files' = files \cup {[id |-> Min(1 .. MaxFiles \ {f.id : f \in files}), sector |-> slot[k].sector]}
  BY ZenonT(60) DEF filesys_open
<1>1. /\ up /\ op.do = "idle" /\ Cardinality(files) < MaxFiles
      /\ UNCHANGED <<dmap, dinode, slot, dirty, up, free_map, op, stops, leaked, written>>
  BY ZenonT(60) DEF filesys_open, At, disk, ghosts
<1>2. PICK s : s = slot[k].sector
  BY ZenonT(60)
<1>3. k \in Slots /\ slot[k] # Null
  BY ZenonT(60), <1>0, LookupFinds
<1>4. s \in Named
  BY ZenonT(60), <1>2, <1>3 DEF Named
<1>5. /\ s \in Sectors /\ open' \in [Sectors -> Handles \cup {Null}]
      /\ Opened' = Opened \cup {s} /\ Named' = Named /\ Roots' = Roots
      /\ \A r \in Sectors : r # s => open'[r] = open[r]
      /\ open'[s].start = dinode[s].start /\ open'[s].len = dinode[s].len /\ ~open'[s].removed
      /\ s \in Opened => open'[s].cnt = open[s].cnt + 1
      /\ s \notin Opened => open'[s].cnt = 1
  BY ZenonT(60), <1>0, <1>1, <1>2, <1>4, InodeOpened
<1>6. PICK id : id = Min(1 .. MaxFiles \ {f.id : f \in files})
  BY ZenonT(60)
<1>7. id \in 1 .. MaxFiles /\ \A f \in files : f.id # id
  BY ZenonT(60), <1>1, <1>6, NewFileIsNew
<1>8. PICK g : g = [id |-> id, sector |-> s]
  BY ZenonT(60)
<1>9. g.sector = s /\ g \notin files /\ g \in [id : 1 .. MaxFiles, sector : Sectors] /\ files' = files \cup {g}
  BY ZenonT(60), <1>0, <1>2, <1>5, <1>6, <1>7, <1>8
<1>10. IsFiniteSet(files) /\ IsFiniteSet(files')
  BY ZenonT(60), <1>9, FS_AddElement DEF DiskInv, TypeInv
<1>11. TypeInv'
  BY ZenonT(60), <1>1, <1>5, <1>9, <1>10 DEF DiskInv, TypeInv
<1>12. /\ \A r : Reachable(r)' = Reachable(r) /\ Data(r)' = Data(r)
       /\ MapInv'
  BY ZenonT(60), <1>1, <1>4, <1>5, TreeShrinks DEF Roots
<1>13. OpInv' /\ ZeroInv'
  <2>1. op' = Idle /\ op'.do \notin {"zeros", "look", "add"}
    BY <1>1 DEF DiskInv, OpInv
  <2> QED BY ZenonT(60), <2>1, <1>1, <1>5, <1>12, HandsEmpty, CleanShrinks
<1>14. OpenInv'
  <2>1. \A r : ~Erasing(r) /\ ~Erasing(r)'
    BY ZenonT(60), <1>1 DEF Erasing
  <2>2. Opens(s)' = Opens(s) \cup {g} /\ g \notin Opens(s) /\ \A r : r # s => Opens(r)' = Opens(r)
    BY ZenonT(60), <1>9 DEF Opens
  <2>3. open'[s].cnt = Cardinality(Opens(s)) + 1 /\ Cardinality(Opens(s)) \in Nat
    <3>1. CASE s \in Opened
      <4>1. open[s].cnt = Cardinality(Opens(s)) + 0
        BY ZenonT(60), <3>1, <2>1 DEF DiskInv, OpenInv
      <4>2. open'[s].cnt = open[s].cnt + 1 /\ Cardinality(Opens(s)) \in Nat
        BY ZenonT(60), <3>1, <1>5, OpensFacts
      <4> QED BY <4>1, <4>2
    <3>2. CASE s \notin Opened
      <4>1. open'[s].cnt = 1 /\ Cardinality(Opens(s)) = 0
        BY ZenonT(60), <3>2, <1>5, OpensFacts
      <4> QED BY <4>1
    <3> QED BY ZenonT(60), <3>1, <3>2
  <2>4. Cardinality(Opens(s)') = Cardinality(Opens(s)) + 1
    BY ZenonT(60), <2>2, OpensFacts, FS_AddElement
  <2>5. \A r \in Opened : r # s => open'[r] = open[r] /\ r \in Sectors
    BY ZenonT(60), <1>5 DEF Opened
  <2>6. (\A r \in Opened : open[r].cnt = Cardinality(Opens(r)) + (IF Erasing(r) THEN 1 ELSE 0))'
    <3> SUFFICES ASSUME NEW r \in Opened' PROVE open'[r].cnt = Cardinality(Opens(r)') + 0
      BY ZenonT(60), <2>1
    <3>1. CASE r = s
      BY <3>1, <2>3, <2>4
    <3>2. CASE r # s
      <4>1. r \in Opened /\ open'[r] = open[r] /\ Opens(r)' = Opens(r)
        BY ZenonT(60), <3>2, <1>5, <2>2, <2>5
      <4> QED BY ZenonT(60), <4>1, <2>1 DEF DiskInv, OpenInv
    <3> QED BY <3>1, <3>2
  <2>7. (\A r \in Opened : open[r].cnt > 0)'
    BY <1>5, <2>3, <2>5 DEF DiskInv, OpenInv
  <2>8. (\A r \in Opened : open[r].start = dinode[r].start /\ open[r].len = dinode[r].len)'
        /\ (\A r \in Opened : open[r].removed => r \notin Named)'
    BY ZenonT(60), <1>1, <1>5, <2>5 DEF DiskInv, OpenInv
  <2>9. (\A f \in files : f.sector \in Opened)'
    BY ZenonT(60), <1>5, <1>9 DEF DiskInv, OpenInv
  <2>10. up' /\ op'.do # "erase"
    BY <1>1
  <2> QED BY ZenonT(60), <2>6, <2>7, <2>8, <2>9, <2>10 DEF OpenInv
<1> QED BY ZenonT(60), <1>11, <1>12, <1>13, <1>14 DEF DiskInv

(* dir_remove has found the entry and opened its inode.                      *)
LEMMA RemoveInv ==
    ASSUME Sane, HaveMinima, DiskInv, NEW name, filesys_remove(name)
    PROVE  DiskInv'
<1>0. PICK k \in lookup(name) :
        /\ k # Null /\ open' = inode_open(slot[k].sector)
        /\ op' = [Idle EXCEPT !.do = "erase", !.k = k, !.sector = slot[k].sector]
  BY ZenonT(60) DEF filesys_remove
<1>1. /\ up /\ op.do = "idle"
      /\ UNCHANGED <<dmap, dinode, slot, dirty, up, free_map, files, stops, leaked, written>>
  BY ZenonT(60) DEF filesys_remove, At, disk, ghosts
<1>2. PICK s : s = slot[k].sector
  BY ZenonT(60)
<1>3. k \in Slots /\ slot[k] # Null
  BY ZenonT(60), <1>0, LookupFinds
<1>4. s \in Named
  BY ZenonT(60), <1>2, <1>3 DEF Named
<1>5. /\ s \in Sectors /\ open' \in [Sectors -> Handles \cup {Null}]
      /\ Opened' = Opened \cup {s} /\ Named' = Named /\ Roots' = Roots
      /\ \A r \in Sectors : r # s => open'[r] = open[r]
      /\ open'[s].start = dinode[s].start /\ open'[s].len = dinode[s].len /\ ~open'[s].removed
      /\ s \in Opened => open'[s].cnt = open[s].cnt + 1
      /\ s \notin Opened => open'[s].cnt = 1
  BY ZenonT(60), <1>0, <1>1, <1>2, <1>4, InodeOpened
<1>6. op' \in Ops /\ op'.do = "erase" /\ op'.k = k /\ op'.sector = s
  BY ZenonT(60), <1>0, <1>2, <1>3, <1>5, SectorFacts DEF Idle, Ops, Steps
<1>11. TypeInv'
  BY ZenonT(60), <1>1, <1>5, <1>6 DEF DiskInv, TypeInv
<1>12. /\ \A r : Reachable(r)' = Reachable(r) /\ Data(r)' = Data(r)
       /\ MapInv'
  BY ZenonT(60), <1>1, <1>4, <1>5, TreeShrinks DEF Roots
<1>13. OpInv' /\ ZeroInv'
  <2>1. op'.do \notin {"zeros", "look", "add"}
    BY <1>6
  <2> QED BY ZenonT(60), <2>1, <1>1, <1>5, <1>6, <1>12, HandsEmpty, CleanShrinks
<1>14. OpenInv'
  <2>1. \A r : ~Erasing(r) /\ (Erasing(r)' <=> r = s)
    BY ZenonT(60), <1>1, <1>6 DEF Erasing
  <2>2. \A r : Opens(r)' = Opens(r)
    BY ZenonT(60), <1>1 DEF Opens
  <2>3. open'[s].cnt = Cardinality(Opens(s)) + 1 /\ Cardinality(Opens(s)) \in Nat
    <3>1. CASE s \in Opened
      <4>1. open[s].cnt = Cardinality(Opens(s)) + 0
        BY ZenonT(60), <3>1, <2>1 DEF DiskInv, OpenInv
      <4>2. open'[s].cnt = open[s].cnt + 1 /\ Cardinality(Opens(s)) \in Nat
        BY ZenonT(60), <3>1, <1>5, OpensFacts
      <4> QED BY <4>1, <4>2
    <3>2. CASE s \notin Opened
      <4>1. open'[s].cnt = 1 /\ Cardinality(Opens(s)) = 0
        BY ZenonT(60), <3>2, <1>5, OpensFacts
      <4> QED BY <4>1
    <3> QED BY ZenonT(60), <3>1, <3>2
  <2>5. \A r \in Opened : r # s => open'[r] = open[r] /\ r \in Sectors
    BY ZenonT(60), <1>5 DEF Opened
  <2>6. (\A r \in Opened : open[r].cnt = Cardinality(Opens(r)) + (IF Erasing(r) THEN 1 ELSE 0))'
    <3> SUFFICES ASSUME NEW r \in Opened'
                 PROVE  open'[r].cnt = Cardinality(Opens(r)) + (IF r = s THEN 1 ELSE 0)
      BY ZenonT(60), <2>1, <2>2
    <3>1. CASE r = s
      BY ZenonT(60), <3>1, <2>3
    <3>2. CASE r # s
      <4>1. r \in Opened /\ open'[r] = open[r]
        BY ZenonT(60), <3>2, <1>5, <2>5
      <4> QED BY ZenonT(60), <4>1, <3>2, <2>1 DEF DiskInv, OpenInv
    <3> QED BY <3>1, <3>2
  <2>7. (\A r \in Opened : open[r].cnt > 0)'
    BY <1>5, <2>3, <2>5 DEF DiskInv, OpenInv
  <2>8. (\A r \in Opened : open[r].start = dinode[r].start /\ open[r].len = dinode[r].len)'
        /\ (\A r \in Opened : open[r].removed => r \notin Named)'
    BY ZenonT(60), <1>1, <1>5, <2>5 DEF DiskInv, OpenInv
  <2>9. (\A f \in files : f.sector \in Opened)'
    BY ZenonT(60), <1>1, <1>5 DEF DiskInv, OpenInv
  <2>10. up' /\ op'.k \in Slots /\ slot'[op'.k] # Null /\ slot'[op'.k].sector = op'.sector /\ op'.sector \in Opened'
    BY ZenonT(60), <1>1, <1>2, <1>3, <1>5, <1>6
  <2> QED BY ZenonT(60), <2>6, <2>7, <2>8, <2>9, <2>10 DEF OpenInv
<1> QED BY ZenonT(60), <1>11, <1>12, <1>13, <1>14 DEF DiskInv

(* An inode that was in use and is no more: its sectors, in the hands of the *)
(* operation that releases them, are marked and belong to nothing else.      *)
LEMMA HandsFull ==
    ASSUME Sane, DiskInv, up, UNCHANGED <<dinode, up, free_map>>, Roots' \subseteq Roots,
           NEW s \in Roots, s \in Sectors, s \notin Roots',
           op' \in Ops, op'.do = "release_inode", op'.sector = s,
           op'.start = dinode[s].start, op'.size = dinode[s].len
    PROVE  OpInv'
<1>1. TakenInode' = {s} /\ TakenData' = Data(s) /\ Taken' = Reachable(s)
  BY ZenonT(60), TakenNext DEF Taken, Data, Reachable
<1>2. \A r : Reachable(r)' = Reachable(r)
  BY ZenonT(60) DEF Reachable
<1>3. System' = System /\ s \notin Data(s) /\ Reachable(s) \subseteq free_map \ System
  BY ZenonT(60) DEF System, DiskInv, MapInv
<1>4. \A r \in Roots' : Reachable(s) \cap Reachable(r) = {}
  BY ZenonT(60) DEF DiskInv, MapInv
<1>5. op'.do # "idle" /\ op'.do \notin {"alloc_inode", "alloc_data"} \cup Creating
      /\ op'.do \notin {"alloc_inode", "alloc_data"} /\ op'.do \notin {"alloc_inode", "alloc_data", "put_inode"}
      /\ op'.do \notin {"zeros", "look", "add"}
  BY DEF Creating
<1>6. TakenInode' \cap TakenData' = {}
  BY ZenonT(60), <1>1, <1>3
<1> QED BY ZenonT(60), <1>1, <1>2, <1>3, <1>4, <1>5, <1>6 DEF OpInv

(* file_close: one opener less; the last of a removed inode's releases it.   *)
LEMMA CloseFileInv ==
    ASSUME Sane, DiskInv, NEW f, file_close(f)
    PROVE  DiskInv'
<1>0. /\ up /\ op.do = "idle" /\ f \in files /\ files' = files \ {f} /\ open' = inode_close(f.sector)
      /\ UNCHANGED <<dmap, dinode, slot, dirty, up, free_map, stops, leaked, written>>
      /\ IF open[f.sector].removed /\ open[f.sector].cnt = 1
         THEN op' = [Idle EXCEPT !.do = "release_inode", !.sector = f.sector,
                                 !.start = open[f.sector].start, !.size = open[f.sector].len]
         ELSE op' = op
  BY ZenonT(60) DEF file_close, At, disk, ghosts
<1>1. PICK s : s = f.sector
  BY ZenonT(60)
<1>2. s \in Opened /\ s \in Sectors /\ s \in Roots /\ op = Idle
  BY ZenonT(60), <1>0, <1>1 DEF DiskInv, OpenInv, OpInv, Opened, Roots
<1>3. /\ open' \in [Sectors -> Handles \cup {Null}]
      /\ \A r \in Sectors : r # s => open'[r] = open[r]
      /\ open[s].cnt = 1 => Opened' = Opened \ {s}
      /\ open[s].cnt # 1 => /\ Opened' = Opened /\ open'[s].cnt = open[s].cnt - 1
                            /\ open'[s].removed = open[s].removed
                            /\ open'[s].start = open[s].start /\ open'[s].len = open[s].len
  BY ZenonT(60), <1>0, <1>1, <1>2, InodeClosed
<1>4. Opened' \subseteq Opened
  BY ZenonT(60), <1>3
<1>5. /\ Named' = Named /\ Roots' \subseteq Roots
      /\ \A r : Reachable(r)' = Reachable(r) /\ Data(r)' = Data(r)
      /\ MapInv'
  <2>1. Named' = Named
    BY ZenonT(60), <1>0 DEF Named
  <2> QED BY ZenonT(60), <2>1, <1>0, <1>4, TreeShrinks DEF Roots
<1>6. open[s] \in Handles /\ open[s].start = dinode[s].start /\ open[s].len = dinode[s].len
      /\ (open[s].removed => s \notin Named)
  <2>1. open[s] # Null /\ open[s] \in Handles \cup {Null}
    BY ZenonT(60), <1>2 DEF Opened, DiskInv, TypeInv
  <2> QED BY ZenonT(60), <2>1, <1>2 DEF DiskInv, OpenInv
<1>7. /\ op' \in Ops
      /\ \/ /\ op' = Idle
         \/ /\ open[s].removed /\ open[s].cnt = 1 /\ op'.do = "release_inode" /\ op'.sector = s
            /\ op'.start = dinode[s].start /\ op'.size = dinode[s].len
  <2>1. op \in Ops
    BY ZenonT(60) DEF DiskInv, TypeInv
  <2>2. CASE ~(open[s].removed /\ open[s].cnt = 1)
    BY ZenonT(60), <2>1, <2>2, <1>0, <1>1, <1>2
  <2>3. CASE open[s].removed /\ open[s].cnt = 1
    <3>1. op' = [Idle EXCEPT !.do = "release_inode", !.sector = s, !.start = dinode[s].start, !.size = dinode[s].len]
      BY ZenonT(60), <2>3, <1>0, <1>1, <1>6
    <3>2. dinode[s].start \in Sectors /\ dinode[s].len \in Nat
      BY <1>6 DEF Handles
    <3> QED BY ZenonT(60), <2>3, <3>1, <3>2, <1>2, SectorFacts DEF Idle, Ops, Steps
  <2> QED BY ZenonT(60), <2>2, <2>3
<1>8. IsFiniteSet(files) /\ IsFiniteSet(files')
  BY ZenonT(60), <1>0, FS_RemoveElement DEF DiskInv, TypeInv
<1>9. TypeInv'
  BY ZenonT(60), <1>0, <1>3, <1>7, <1>8 DEF DiskInv, TypeInv
<1>10. OpInv'
  <2>1. CASE op' = Idle
    BY ZenonT(60), <2>1, HandsEmpty
  <2>2. CASE /\ open[s].removed /\ open[s].cnt = 1 /\ op'.do = "release_inode" /\ op'.sector = s
             /\ op'.start = dinode[s].start /\ op'.size = dinode[s].len
    <3>1. s \notin Roots'
      BY ZenonT(60), <2>2, <1>3, <1>5, <1>6 DEF Roots
    <3> QED BY ZenonT(60), <2>2, <3>1, <1>0, <1>2, <1>5, <1>7, HandsFull
  <2> QED BY ZenonT(60), <1>7, <2>1, <2>2
<1>a. op'.do \notin {"zeros", "look", "add"} /\ op'.do # "erase"
  BY <1>7 DEF Idle
<1>11. ZeroInv'
  BY ZenonT(60), <1>a, <1>0, <1>5, CleanShrinks
<1>12. OpenInv'
  <2>1. \A r : ~Erasing(r) /\ ~Erasing(r)'
    BY ZenonT(60), <1>a, <1>0 DEF Erasing
  <2>2. Opens(s)' = Opens(s) \ {f} /\ f \in Opens(s) /\ \A r : r # s => Opens(r)' = Opens(r)
    BY ZenonT(60), <1>0, <1>1 DEF Opens
  <2>3. /\ open[s].cnt = Cardinality(Opens(s)) /\ Cardinality(Opens(s)) \in Nat
        /\ Cardinality(Opens(s)') = Cardinality(Opens(s)) - 1
        /\ Cardinality(Opens(s)') \in Nat /\ (Cardinality(Opens(s)') = 0 => Opens(s)' = {})
    <3>1. open[s].cnt = Cardinality(Opens(s)) + 0
      BY ZenonT(60), <1>2, <2>1 DEF DiskInv, OpenInv
    <3>2. Cardinality(Opens(s)') = Cardinality(Opens(s)) - 1 /\ IsFiniteSet(Opens(s)')
      BY ZenonT(60), <2>2, OpensFacts, FS_RemoveElement
    <3>3. Cardinality(Opens(s)') \in Nat /\ (Cardinality(Opens(s)') = 0 => Opens(s)' = {})
      BY ZenonT(60), <3>2, FS_CardinalityType, FS_EmptySet
    <3> QED BY <3>1, <3>2, <3>3, OpensFacts
  <2>4. open[s].cnt = 1 => Opens(s)' = {}
    BY <2>3
  <2>5. \A r \in Opened : r # s => open'[r] = open[r] /\ r \in Sectors
    BY ZenonT(60), <1>3 DEF Opened
  <2>6. (\A r \in Opened : open[r].cnt = Cardinality(Opens(r)) + (IF Erasing(r) THEN 1 ELSE 0))'
    <3> SUFFICES ASSUME NEW r \in Opened' PROVE open'[r].cnt = Cardinality(Opens(r)') + 0
      BY ZenonT(60), <2>1
    <3>1. CASE r = s
      BY <3>1, <2>3, <1>3
    <3>2. CASE r # s
      <4>1. r \in Opened /\ open'[r] = open[r] /\ Opens(r)' = Opens(r)
        BY ZenonT(60), <3>2, <1>4, <2>2, <2>5
      <4> QED BY ZenonT(60), <4>1, <2>1 DEF DiskInv, OpenInv
    <3> QED BY <3>1, <3>2
  <2>7. (\A r \in Opened : open[r].cnt > 0)'
    <3>1. s \in Opened' => open'[s].cnt > 0
      BY <1>3, <2>3
    <3> QED BY ZenonT(60), <3>1, <1>4, <2>5 DEF DiskInv, OpenInv
  <2>8. (\A r \in Opened : open[r].start = dinode[r].start /\ open[r].len = dinode[r].len)'
        /\ (\A r \in Opened : open[r].removed => r \notin Named)'
    <3>1. s \in Opened' => open'[s].removed = open[s].removed
                            /\ open'[s].start = open[s].start /\ open'[s].len = open[s].len
      BY ZenonT(60), <1>3
    <3> QED BY ZenonT(60), <3>1, <1>0, <1>2, <1>4, <1>5, <2>5 DEF DiskInv, OpenInv
  <2>9. (\A h \in files : h.sector \in Opened)'
    <3> SUFFICES ASSUME NEW h \in files' PROVE h.sector \in Opened'
      BY ZenonT(60)
    <3>1. h \in files /\ h.sector \in Opened
      BY ZenonT(60), <1>0 DEF DiskInv, OpenInv
    <3>2. h.sector = s => open[s].cnt # 1
      BY ZenonT(60), <2>4 DEF Opens
    <3> QED BY ZenonT(60), <3>1, <3>2, <1>3
  <2> QED BY ZenonT(60), <1>0, <1>a, <2>6, <2>7, <2>8, <2>9 DEF OpenInv
<1> QED BY ZenonT(60), <1>9, <1>5, <1>10, <1>11, <1>12 DEF DiskInv

(* dir_remove erases the entry and closes the inode: the sectors are         *)
(* released now if nobody else has it open, else by the last file_close.     *)
LEMMA EraseInv ==
    ASSUME Sane, DiskInv, Erase
    PROVE  DiskInv'
<1> DEFINE s == op.sector
           i == open[s]
<1>0. /\ up /\ op.do = "erase"
      /\ UNCHANGED <<dmap, dinode, dirty, up, free_map, files, stops, leaked, written>>
  BY ZenonT(60) DEF Erase, At, ghosts
<1>1. \/ /\ slot' = [slot EXCEPT ![op.k] = Null] /\ i.cnt = 1 /\ open' = inode_close(s)
         /\ op' = [op EXCEPT !.do = "release_inode", !.start = i.start, !.size = i.len]
      \/ /\ slot' = [slot EXCEPT ![op.k] = Null] /\ i.cnt # 1 /\ op' = Idle
         /\ open' = [open EXCEPT ![s] = [i EXCEPT !.cnt = i.cnt - 1, !.removed = TRUE]]
      \/ slot' = slot /\ open' = inode_close(s) /\ op' = Idle
  BY ZenonT(60) DEF Erase, Finish
<1>2. /\ op.k \in Slots /\ slot[op.k] # Null /\ slot[op.k].sector = s
      /\ s \in Opened /\ s \in Sectors /\ s \in Roots /\ s \in Named /\ op \in Ops
  <2>1. op.k \in Slots /\ slot[op.k] # Null /\ slot[op.k].sector = s /\ s \in Opened /\ op \in Ops
    BY ZenonT(60), <1>0 DEF DiskInv, OpenInv, TypeInv
  <2> QED BY ZenonT(60), <2>1 DEF Opened, Named, Roots
<1>3. /\ i \in Handles /\ i.start = dinode[s].start /\ i.len = dinode[s].len
      /\ i.cnt = Cardinality(Opens(s)) + 1 /\ Cardinality(Opens(s)) \in Nat
      /\ i.cnt = 1 => Opens(s) = {}
      /\ open \in [Sectors -> Handles \cup {Null}] /\ slot \in [Slots -> Entries \cup {Null}]
  <2>1. open \in [Sectors -> Handles \cup {Null}] /\ slot \in [Slots -> Entries \cup {Null}]
    BY ZenonT(60) DEF DiskInv, TypeInv
  <2>2. i \in Handles
    BY ZenonT(60), <2>1, <1>2 DEF Opened
  <2>3. i.start = dinode[s].start /\ i.len = dinode[s].len /\ Erasing(s)
        /\ i.cnt = Cardinality(Opens(s)) + (IF Erasing(s) THEN 1 ELSE 0)
    BY ZenonT(60), <1>0, <1>2 DEF DiskInv, OpenInv, Erasing
  <2>4. i.cnt = Cardinality(Opens(s)) + 1
    BY ZenonT(60), <2>3
  <2>5. i.cnt = 1 => Opens(s) = {}
    <3>1. i.cnt = 1 => Cardinality(Opens(s)) = 0
      BY <2>4, OpensFacts
    <3> QED BY ZenonT(60), <3>1, OpensFacts
  <2> QED BY ZenonT(60), <2>1, <2>2, <2>3, <2>4, <2>5, OpensFacts
<1> HIDE DEF s, i
(* The inode table after the step.                                           *)
<1>4. /\ open' \in [Sectors -> Handles \cup {Null}]
      /\ \A r \in Sectors : r # s => open'[r] = open[r]
      /\ i.cnt = 1 => Opened' = Opened \ {s}
      /\ i.cnt # 1 => /\ Opened' = Opened /\ open'[s].cnt = i.cnt - 1
                      /\ open'[s].start = i.start /\ open'[s].len = i.len
  <2>1. CASE open' = inode_close(s)
    BY ZenonT(60), <2>1, <1>2, <1>3, InodeClosed DEF i
  <2>2. CASE /\ i.cnt # 1
             /\ open' = [open EXCEPT ![s] = [i EXCEPT !.cnt = i.cnt - 1, !.removed = TRUE]]
    <3>1. PICK new : new = [i EXCEPT !.cnt = i.cnt - 1, !.removed = TRUE]
      BY ZenonT(60)
    <3>2. new \in Handles /\ new.cnt = i.cnt - 1 /\ new.start = i.start /\ new.len = i.len
      <4>1. i \in Handles /\ i.cnt - 1 \in Nat
        BY <1>3
      <4> QED BY ZenonT(60), <3>1, <4>1 DEF Handles
    <3>3. /\ open' \in [Sectors -> Handles \cup {Null}] /\ open'[s] = new /\ new # Null
          /\ \A r \in Sectors : r # s => open'[r] = open[r]
      BY <2>2, <3>1, <3>2, <1>2, <1>3, SectorFacts
    <3>4. Opened' = Opened
      BY ZenonT(60), <3>3, <1>2 DEF Opened
    <3> QED BY ZenonT(60), <2>2, <3>2, <3>3, <3>4
  <2> QED BY ZenonT(60), <1>1, <2>1, <2>2 DEF i, s
<1>5. /\ slot' \in [Slots -> Entries \cup {Null}]
      /\ \A k \in Slots : slot'[k] = slot[k] \/ slot'[k] = Null
      /\ slot' # slot => s \notin Named'
  <2>1. CASE slot' = slot
    BY ZenonT(60), <2>1, <1>3
  <2>2. CASE slot' = [slot EXCEPT ![op.k] = Null]
    <3>1. /\ slot' \in [Slots -> Entries \cup {Null}] /\ slot'[op.k] = Null
          /\ \A k \in Slots : k # op.k => slot'[k] = slot[k]
      BY <2>2, <1>2, <1>3
    <3>2. \A k \in Slots : k # op.k /\ slot[k] # Null => slot[k].sector # s
      BY ZenonT(60), <1>2 DEF DiskInv, MapInv
    <3>3. s \notin Named'
      BY ZenonT(60), <3>1, <3>2 DEF Named
    <3> QED BY ZenonT(60), <3>1, <3>3
  <2> QED BY ZenonT(60), <1>1, <2>1, <2>2
<1>6. /\ Named' \subseteq Named /\ Roots' \subseteq Roots
      /\ \A r : Reachable(r)' = Reachable(r) /\ Data(r)' = Data(r)
      /\ MapInv'
  <2>1. Opened' \subseteq Roots
    BY ZenonT(60), <1>4 DEF Roots
  <2> QED BY ZenonT(60), <2>1, <1>0, <1>5, TreeShrinks
<1>7. /\ op' \in Ops
      /\ \/ op' = Idle
         \/ /\ i.cnt = 1 /\ slot' # slot /\ op'.do = "release_inode" /\ op'.sector = s
            /\ op'.start = dinode[s].start /\ op'.size = dinode[s].len
  <2>1. CASE op' = Idle
    BY <2>1, SectorFacts DEF Idle, Ops, Steps
  <2>2. CASE /\ slot' = [slot EXCEPT ![op.k] = Null] /\ i.cnt = 1
             /\ op' = [op EXCEPT !.do = "release_inode", !.start = i.start, !.size = i.len]
    <3>1. i.start \in Sectors /\ i.len \in Nat
      BY <1>3 DEF Handles
    <3>2. slot' # slot
      BY <2>2, <1>2, <1>3
    <3> QED BY ZenonT(60), <2>2, <3>1, <3>2, <1>2, <1>3 DEF Ops, Steps, s
  <2> QED BY ZenonT(60), <1>1, <2>1, <2>2 DEF i, s
<1>8. TypeInv'
  BY ZenonT(60), <1>0, <1>4, <1>5, <1>7 DEF DiskInv, TypeInv
<1>9. OpInv'
  <2>1. CASE op' = Idle
    BY ZenonT(60), <2>1, HandsEmpty
  <2>2. CASE /\ i.cnt = 1 /\ slot' # slot /\ op'.do = "release_inode" /\ op'.sector = s
             /\ op'.start = dinode[s].start /\ op'.size = dinode[s].len
    <3>1. s \notin Roots'
      BY ZenonT(60), <2>2, <1>4, <1>5 DEF Roots
    <3> QED BY ZenonT(60), <2>2, <3>1, <1>0, <1>2, <1>6, <1>7, HandsFull
  <2> QED BY ZenonT(60), <1>7, <2>1, <2>2
<1>a. op'.do \notin {"zeros", "look", "add"} /\ op'.do # "erase"
  BY <1>7 DEF Idle
<1>10. ZeroInv'
  BY ZenonT(60), <1>a, <1>0, <1>6, CleanShrinks
<1>11. OpenInv'
  <2>1. \A r : ~Erasing(r)' /\ Opens(r)' = Opens(r) /\ (r # s => ~Erasing(r))
    BY ZenonT(60), <1>a, <1>0 DEF Erasing, Opens, s
  <2>5. \A r \in Opened : r # s => open'[r] = open[r] /\ r \in Sectors
    BY ZenonT(60), <1>4 DEF Opened
  <2>a. Opened' \subseteq Opened /\ (s \in Opened' => i.cnt # 1)
    BY ZenonT(60), <1>4
  <2>6. (\A r \in Opened : open[r].cnt = Cardinality(Opens(r)) + (IF Erasing(r) THEN 1 ELSE 0))'
    <3> SUFFICES ASSUME NEW r \in Opened' PROVE open'[r].cnt = Cardinality(Opens(r)) + 0
      BY ZenonT(60), <2>1
    <3>1. CASE r = s
      BY <3>1, <2>a, <1>3, <1>4
    <3>2. CASE r # s
      <4>1. r \in Opened /\ open'[r] = open[r] /\ ~Erasing(r)
        BY ZenonT(60), <3>2, <2>a, <2>1, <2>5
      <4> QED BY ZenonT(60), <4>1 DEF DiskInv, OpenInv
    <3> QED BY <3>1, <3>2
  <2>7. (\A r \in Opened : open[r].cnt > 0)'
    <3>1. s \in Opened' => open'[s].cnt > 0
      BY <1>3, <1>4, <2>a
    <3> QED BY ZenonT(60), <3>1, <2>a, <2>5 DEF DiskInv, OpenInv
  <2>8. (\A r \in Opened : open[r].start = dinode[r].start /\ open[r].len = dinode[r].len)'
    BY ZenonT(60), <1>0, <1>3, <1>4, <2>a, <2>5 DEF DiskInv, OpenInv
  <2>9. (\A r \in Opened : open[r].removed => r \notin Named)'
    <3>1. s \in Opened' /\ slot' = slot => open'[s].removed = i.removed
      BY ZenonT(60), <1>1, <1>2, <1>3, <1>4, <2>a, InodeClosed DEF i, s
    <3>2. s \in Opened' /\ open'[s].removed => s \notin Named'
      <4>1. i.removed => s \notin Named
        BY ZenonT(60), <1>2 DEF DiskInv, OpenInv, i
      <4> QED BY ZenonT(60), <3>1, <4>1, <1>5, <1>6
    <3> QED BY ZenonT(60), <3>2, <1>6, <2>a, <2>5 DEF DiskInv, OpenInv
  <2>10. (\A h \in files : h.sector \in Opened)'
    <3> SUFFICES ASSUME NEW h \in files PROVE h.sector \in Opened'
      BY ZenonT(60), <1>0
    <3>1. h.sector \in Opened
      BY ZenonT(60) DEF DiskInv, OpenInv
    <3>2. h.sector = s => i.cnt # 1
      BY ZenonT(60), <1>3 DEF Opens
    <3> QED BY ZenonT(60), <3>1, <3>2, <1>4
  <2> QED BY ZenonT(60), <1>0, <1>a, <2>6, <2>7, <2>8, <2>9, <2>10 DEF OpenInv
<1> QED BY ZenonT(60), <1>6, <1>8, <1>9, <1>10, <1>11 DEF DiskInv

(* file_write dirties data of an open inode only.                            *)
LEMMA WriteInv ==
    ASSUME Sane, DiskInv, NEW f, file_write(f)
    PROVE  DiskInv'
<1>0. /\ up /\ op.do = "idle" /\ f \in files
      /\ written' = written \cup {f.sector}
      /\ UNCHANGED <<dmap, dinode, slot, up, free_map, open, files, op, stops, leaked>>
  BY ZenonT(60) DEF file_write, At, memory
<1>1. PICK x \in Run(open[f.sector].start, open[f.sector].len) : dirty' = dirty \cup {x}
  BY ZenonT(60) DEF file_write
<1>2. f.sector \in Roots /\ x \in Data(f.sector)
  <2>1. f.sector \in Opened
    BY ZenonT(60), <1>0 DEF DiskInv, OpenInv
  <2> QED BY ZenonT(60), <1>1, <2>1 DEF DiskInv, OpenInv, Roots, Data
<1>3. /\ Named' = Named /\ Opened' = Opened /\ Roots' = Roots
      /\ \A s : Reachable(s)' = Reachable(s) /\ Data(s)' = Data(s)
      /\ Taken' = Taken /\ TakenInode' = TakenInode /\ TakenData' = TakenData
      /\ \A s : Opens(s)' = Opens(s) /\ Erasing(s)' = Erasing(s)
  BY ZenonT(60), <1>0 DEF Named, Opened, Roots, Reachable, Data, Taken, TakenInode, TakenData, Opens, Erasing
<1>4. TypeInv' /\ MapInv'
  BY ZenonT(60), <1>0, <1>3 DEF DiskInv, TypeInv, MapInv
<1>5. OpInv'
  BY ZenonT(60), <1>0, <1>3 DEF DiskInv, OpInv
<1>a. OpenInv'
  BY ZenonT(60), <1>0, <1>3 DEF DiskInv, OpenInv
<1>6. \A s \in Named : s # f.sector => x \notin Data(s)
  <2>1. \A s : Data(s) \subseteq Reachable(s)
    BY ZenonT(60) DEF Data, Reachable
  <2> QED BY ZenonT(60), <1>2, <2>1 DEF DiskInv, MapInv, Roots
<1>7. (\A s \in Named : s \notin written => Data(s) \cap dirty = {})'
  BY ZenonT(60), <1>0, <1>1, <1>3, <1>6 DEF DiskInv, ZeroInv
<1>8. op'.do \notin {"zeros", "look", "add"}
  BY <1>0
<1>9. ZeroInv'
  BY ZenonT(60), <1>7, <1>8 DEF ZeroInv
<1> QED BY ZenonT(60), <1>4, <1>5, <1>a, <1>9 DEF DiskInv

-----------------------------------------------------------------------------
(* A file system that is not running has nothing open and nothing in hand.   *)
LEMMA WhileDown ==
    ASSUME DiskInv, ~up
    PROVE  op = Idle /\ files = {} /\ Opened = {} /\ Roots = Named
<1>1. op = Idle /\ files = {} /\ Opened = {}
  BY ZenonT(60) DEF DiskInv, OpInv, OpenInv
<1> QED BY ZenonT(60), <1>1 DEF Roots

(* filesys_init formats a new disk.                                          *)
LEMMA FormatInv ==
    ASSUME Sane, DiskInv, do_format
    PROVE  DiskInv'
<1>0. /\ ~up /\ dmap = {} /\ dmap' = System /\ free_map' = System /\ dirty' = dirty \ {DirData}
      /\ dinode' = [dinode EXCEPT ![FREE_MAP_SECTOR] = [start |-> MapData, len |-> 1],
                                  ![ROOT_DIR_SECTOR] = [start |-> DirData, len |-> 1]]
      /\ slot' = [k \in Slots |-> Null] /\ up'
      /\ UNCHANGED <<open, files, op, stops, leaked, written>>
  BY ZenonT(60) DEF do_format, System, ghosts
<1>1. dinode' \in [Sectors -> Inodes]
  <2>1. {FREE_MAP_SECTOR, ROOT_DIR_SECTOR, MapData, DirData} \subseteq Sectors
    BY ZenonT(60), SectorFacts DEF System
  <2>2. dinode \in [Sectors -> Inodes]
    BY ZenonT(60) DEF DiskInv, TypeInv
  <2>3. [start |-> MapData, len |-> 1] \in Inodes /\ [start |-> DirData, len |-> 1] \in Inodes
    BY <2>1 DEF Inodes
  <2> QED BY <1>0, <2>1, <2>2, <2>3
<1>2. Named' = {} /\ Opened' = {} /\ Roots' = {}
  <2>1. Named' = {}
    BY <1>0 DEF Named
  <2>2. Opened' = Opened
    BY ZenonT(60), <1>0 DEF Opened
  <2> QED BY ZenonT(60), <2>1, <2>2, <1>0, WhileDown DEF Roots
<1>3. slot' \in [Slots -> Entries \cup {Null}] /\ \A k \in Slots : slot'[k] = Null
  BY <1>0
<1>4. TypeInv'
  BY ZenonT(60), <1>0, <1>1, <1>3, SectorFacts DEF DiskInv, TypeInv
<1>5. MapInv'
  BY ZenonT(60), <1>0, <1>2, <1>3, SectorFacts DEF MapInv, System
<1>6. op' = Idle /\ op'.do = "idle"
  BY <1>0, WhileDown DEF Idle
<1>7. OpInv'
  BY ZenonT(60), <1>6, HandsEmpty
<1>8. OpenInv' /\ ZeroInv'
  <2>1. files' = {} /\ op'.do # "erase" /\ op'.do \notin {"zeros", "look", "add"}
    BY <1>0, <1>6, WhileDown
  <2> QED BY ZenonT(60), <2>1, <1>0, <1>2 DEF OpenInv, ZeroInv
<1> QED BY ZenonT(60), <1>4, <1>5, <1>7, <1>8 DEF DiskInv

(* filesys_init reads the free map of a disk that was formatted before.      *)
LEMMA RestartInv ==
    ASSUME Sane, DiskInv, filesys_init
    PROVE  DiskInv'
<1>0. /\ ~up /\ dmap # {} /\ free_map' = dmap /\ up'
      /\ UNCHANGED <<dmap, dinode, slot, dirty, open, files, op, stops, leaked, written>>
  BY ZenonT(60) DEF filesys_init, disk, ghosts
<1>1. op = Idle /\ op.do = "idle" /\ files = {} /\ Opened = {} /\ Roots = Named
  BY <1>0, WhileDown DEF Idle
<1>2. /\ Named' = Named /\ Opened' = Opened /\ Roots' = Roots /\ System' = System
      /\ \A s : Reachable(s)' = Reachable(s) /\ Data(s)' = Data(s)
  BY ZenonT(60), <1>0 DEF Named, Opened, Roots, Reachable, Data, System
<1>3. TypeInv'
  BY ZenonT(60), <1>0 DEF DiskInv, TypeInv
<1>4. MapInv'
  BY ZenonT(60), <1>0, <1>1, <1>2 DEF DiskInv, MapInv
<1>5. OpInv'
  BY ZenonT(60), <1>0, <1>1, HandsEmpty
<1>6. OpenInv' /\ ZeroInv'
  <2>1. files' = {} /\ op'.do # "erase" /\ op'.do \notin {"zeros", "look", "add"}
    BY <1>0, <1>1
  <2>2. (\A s \in Named : s \notin written => Data(s) \cap dirty = {})'
    BY ZenonT(60), <1>0, <1>2 DEF DiskInv, ZeroInv
  <2> QED BY ZenonT(60), <2>1, <2>2, <1>0, <1>1, <1>2 DEF OpenInv, ZeroInv
<1> QED BY ZenonT(60), <1>3, <1>4, <1>5, <1>6 DEF DiskInv

(* The machine stops, at any point or in order: the disk stays as it is.     *)
LEMMA DownInv ==
    ASSUME Sane, DiskInv, up, UNCHANGED <<dmap, dinode, slot, dirty, written>>, ~up', up' \in BOOLEAN,
           free_map' \subseteq Sectors, open' = [s \in Sectors |-> Null], files' = {}, op' = Idle, stops' \in Nat
    PROVE  DiskInv'
<1>1. op' \in Ops /\ op'.do # "erase" /\ op'.do \notin {"zeros", "look", "add"}
  BY SectorFacts DEF Idle, Ops, Steps
<1>2. open' \in [Sectors -> Handles \cup {Null}] /\ Opened' = {}
  BY DEF Opened
<1>3. /\ Named' = Named /\ Roots' = Named /\ System' = System
      /\ \A s : Reachable(s)' = Reachable(s) /\ Data(s)' = Data(s)
  BY ZenonT(60), <1>2 DEF Named, Roots, Reachable, Data, System
<1>4. TypeInv'
  BY ZenonT(60), <1>1, <1>2, FS_EmptySet DEF DiskInv, TypeInv
<1>5. MapInv'
  <2>1. Named \subseteq Roots /\ dmap # {}
    BY ZenonT(60), WhileUp, SectorFacts DEF Roots
  <2> QED BY ZenonT(60), <1>3, <2>1 DEF DiskInv, MapInv
<1>6. OpInv'
  BY ZenonT(60), HandsEmpty
<1>7. OpenInv' /\ ZeroInv'
  <2>2. (\A s \in Named : s \notin written => Data(s) \cap dirty = {})'
    BY ZenonT(60), <1>3 DEF DiskInv, ZeroInv
  <2> QED BY ZenonT(60), <2>2, <1>1, <1>2 DEF OpenInv, ZeroInv
<1> QED BY ZenonT(60), <1>4, <1>5, <1>6, <1>7 DEF DiskInv

(* The two ways to stop.                                                     *)
LEMMA StopInv ==
    ASSUME Sane, DiskInv, Stop \/ filesys_done
    PROVE  DiskInv'
<1>0. stops \in Nat /\ free_map \subseteq Sectors /\ (op.do = "idle" => op = Idle)
  BY ZenonT(60) DEF DiskInv, TypeInv, OpInv
<1>1. CASE Stop
  <2>1. stops' \in Nat
    BY <1>0, <1>1 DEF Stop
  <2> QED BY ZenonT(60), <1>1, <2>1, DownInv DEF Stop, disk
<1>2. CASE filesys_done
  BY ZenonT(60), <1>0, <1>2, DownInv DEF filesys_done, At, disk
<1> QED BY <1>1, <1>2

-----------------------------------------------------------------------------
(* The sectors in use as long as the inodes in use are the same.             *)
LEMMA SameUse ==
    ASSUME Kept
    PROVE  InUse' = InUse /\ Owned' = InUse \cup Taken'
<1>1. Roots' = Roots /\ \A s \in Roots : Reachable(s)' = Reachable(s)
  BY ZenonT(60), SameTree
<1>2. InUse' = InUse
  BY ZenonT(60), <1>1 DEF InUse
<1> QED BY ZenonT(60), <1>2 DEF Owned

(* The free map is exact after a step that takes, moves or gives back        *)
(* sectors if the sectors in use are those of the map.                       *)
LEMMA Balanced ==
    ASSUME AccountInv, up, up', dmap' = free_map',
           free_map' = System \cup Owned' \cup leaked', leaked' \cap Owned' = {},
           (\A s \in Opened : ~open[s].removed => s \in Named)'
    PROVE  AccountInv'
BY ZenonT(60) DEF AccountInv, System

(* Which removed inodes are open does not change with the free map.          *)
LEMMA KeptOpen ==
    ASSUME AccountInv, Kept
    PROVE  (\A s \in Opened : ~open[s].removed => s \in Named)'
BY ZenonT(60), SameTree DEF AccountInv, Kept

(* filesys_create begins.                                                    *)
LEMMA CreateAccount ==
    ASSUME Sane, DiskInv, AccountInv, NEW name, NEW size, filesys_create(name, size)
    PROVE  AccountInv'
<1>0. /\ up /\ op.do = "idle" /\ UNCHANGED <<dmap, dinode, slot, up, free_map, open, leaked>>
      /\ op' = op \/ op' = [Idle EXCEPT !.do = "alloc_inode", !.name = name, !.size = size]
  BY ZenonT(60) DEF filesys_create, At, disk, memory, ghosts
<1>1. Kept
  BY <1>0 DEF Kept
<1>2. op'.do \in {"idle", "alloc_inode"}
  BY ZenonT(60), <1>0 DEF Idle
<1>3. Taken = {} /\ Taken' = {}
  BY <1>0, <1>2, TakenFacts, TakenNext DEF Taken
<1>4. Owned' = Owned
  BY ZenonT(60), <1>1, <1>3, SameUse DEF Owned
<1> QED BY ZenonT(60), <1>0, <1>1, <1>4, KeptOpen, Balanced DEF AccountInv

(* Sectors that free_map_allocate takes are the operation's.                 *)
LEMMA AllocAccount ==
    ASSUME Sane, DiskInv, AccountInv, up, up', Kept, leaked' = leaked,
           NEW S, S \cap free_map = {}, free_map' = free_map \cup S, dmap' = free_map',
           Taken' = Taken \cup S
    PROVE  AccountInv'
<1>1. Owned' = Owned \cup S
  BY ZenonT(60), SameUse DEF Owned
<1>2. free_map = System \cup Owned \cup leaked /\ leaked \cap Owned = {}
  BY ZenonT(60) DEF AccountInv
<1>3. free_map' = System \cup Owned' \cup leaked' /\ leaked' \cap Owned' = {}
  BY ZenonT(60), <1>1, <1>2
<1> QED BY ZenonT(60), <1>3, KeptOpen, Balanced

(* An operation that goes on with the same sectors in hand.                  *)
LEMMA PassAccount ==
    ASSUME AccountInv, up, Kept, UNCHANGED <<up, dmap, free_map, leaked>>, Taken' = Taken
    PROVE  AccountInv'
<1>1. Owned' = Owned
  BY ZenonT(60), SameUse DEF Owned
<1> QED BY ZenonT(60), <1>1, KeptOpen, Balanced DEF AccountInv

(* Both allocations of filesys_create.                                       *)
LEMMA AllocatesAccount ==
    ASSUME Sane, HaveMinima, DiskInv, AccountInv, AllocInode \/ AllocData
    PROVE  AccountInv'
<1>1. CASE AllocInode
  <2> DEFINE s1 == FirstRun(1)
  <2>0. /\ up /\ op.do = "alloc_inode" /\ UNCHANGED <<dinode, slot, up, open, leaked>>
        /\ \/ /\ s1 # Null /\ free_map' = free_map \cup Run(s1, 1) /\ dmap' = free_map'
              /\ op' = [op EXCEPT !.do = "alloc_data", !.sector = s1]
           \/ op' = Idle /\ UNCHANGED <<free_map, dmap>>
    BY ZenonT(60), <1>1 DEF AllocInode, free_map_allocate, At, Finish, ghosts
  <2>1. Kept /\ Taken = {}
    BY <2>0, TakenFacts DEF Kept, Taken
  <2>2. CASE op' = Idle /\ UNCHANGED <<free_map, dmap>>
    <3>1. op'.do = "idle"
      BY <2>2 DEF Idle
    <3>2. Taken' = {}
      BY ZenonT(60), <3>1, TakenNext DEF Taken
    <3> QED BY ZenonT(60), <3>2, <2>0, <2>1, <2>2, PassAccount
  <2>3. CASE /\ s1 # Null /\ free_map' = free_map \cup Run(s1, 1) /\ dmap' = free_map'
             /\ op' = [op EXCEPT !.do = "alloc_data", !.sector = s1]
    <3>1. s1 \in Sectors /\ Run(s1, 1) = {s1} /\ s1 \notin free_map
      BY <2>3, FirstRunIsFree, SectorFacts
    <3> HIDE DEF s1
    <3>2. op'.do = "alloc_data" /\ op'.sector = s1
      BY <2>0, <2>3, WhileUp DEF Ops
    <3>3. Taken' = {s1}
      BY ZenonT(60), <3>2, TakenNext DEF Taken
    <3>4. Taken' = Taken \cup {s1} /\ {s1} \cap free_map = {} /\ free_map' = free_map \cup {s1}
      BY ZenonT(60), <2>1, <2>3, <3>1, <3>3
    <3> QED BY ZenonT(60), <3>4, <2>0, <2>1, <2>3, AllocAccount
  <2> QED BY ZenonT(60), <2>0, <2>2, <2>3
<1>2. CASE AllocData
  <2> DEFINE s2 == FirstRun(op.size)
  <2>0. /\ up /\ op.do = "alloc_data" /\ UNCHANGED <<dinode, slot, up, open, leaked>>
        /\ \/ /\ s2 # Null /\ free_map' = free_map \cup Run(s2, op.size) /\ dmap' = free_map'
              /\ op' = [op EXCEPT !.do = "put_inode", !.start = s2]
           \/ op' = [op EXCEPT !.do = "undo"] /\ UNCHANGED <<free_map, dmap>>
    BY ZenonT(60), <1>2 DEF AllocData, free_map_allocate, At, Do, ghosts
  <2>1. Kept /\ Taken = {op.sector} /\ op.start = 0
    BY <2>0, TakenFacts DEF Kept, Taken, DiskInv, OpInv
  <2>2. CASE op' = [op EXCEPT !.do = "undo"] /\ UNCHANGED <<free_map, dmap>>
    <3>1. op'.do = "undo" /\ op'.sector = op.sector /\ op'.start = 0
      BY <2>0, <2>1, <2>2, WhileUp DEF Ops
    <3>2. Taken' = {op.sector}
      BY <3>1, TakenNext DEF Taken
    <3> QED BY ZenonT(60), <3>2, <2>0, <2>1, <2>2, PassAccount
  <2>3. CASE /\ s2 # Null /\ free_map' = free_map \cup Run(s2, op.size) /\ dmap' = free_map'
             /\ op' = [op EXCEPT !.do = "put_inode", !.start = s2]
    <3>1. Run(s2, op.size) \cap free_map = {}
      BY <2>0, <2>3, FirstRunIsFree, WhileUp
    <3> HIDE DEF s2
    <3>2. op'.do = "put_inode" /\ op'.sector = op.sector /\ op'.start = s2 /\ op'.size = op.size
      BY <2>0, <2>3, WhileUp DEF Ops
    <3>3. Taken' = Taken \cup Run(s2, op.size)
      BY <3>2, <2>1, TakenNext DEF Taken, Creating
    <3> QED BY ZenonT(60), <3>1, <3>3, <2>0, <2>1, <2>3, AllocAccount
  <2> QED BY ZenonT(60), <2>0, <2>2, <2>3
<1> QED BY <1>1, <1>2

(* inode_create and dir_add up to the entry keep the sectors they took.      *)
LEMMA GoesOnAccount ==
    ASSUME Sane, DiskInv, AccountInv, PutInode \/ Zeros \/ Look
    PROVE  AccountInv'
<1>0. /\ up /\ op.do \in {"put_inode", "zeros", "look"} /\ UNCHANGED <<dmap, slot, up, free_map, open, leaked>>
      /\ \/ dinode' = dinode
         \/ dinode' = [dinode EXCEPT ![op.sector] = [start |-> op.start, len |-> op.size]]
      /\ \/ \E d \in {"zeros", "look", "add", "undo"} : op' = [op EXCEPT !.do = d]
         \/ op' = [op EXCEPT !.k = op.k + 1]
  <2>1. CASE PutInode
    BY ZenonT(60), <2>1 DEF PutInode, At, Do, memory
  <2>2. CASE Zeros
    BY ZenonT(60), <2>2 DEF Zeros, At, Do, memory, ghosts
  <2>3. CASE Look
    <3>1. PICK found \in lookup(op.name) :
            op' = [op EXCEPT !.do = IF found = Null /\ op.name \notin BadNames THEN "add" ELSE "undo"]
      BY ZenonT(60), <2>3 DEF Look, Do
    <3> QED BY ZenonT(60), <2>3, <3>1 DEF Look, At, disk, memory, ghosts
  <2> QED BY <2>1, <2>2, <2>3
<1>1. /\ op'.do \in {"put_inode", "zeros", "look", "add", "undo"} /\ op'.sector = op.sector
      /\ op'.start = op.start /\ op'.size = op.size
  BY <1>0, WhileUp DEF Ops
<1>2. op.start = 0 => Run(op.start, op.size) = {}
  BY <1>0, CreatingFacts DEF Creating
<1>3. TakenInode = {op.sector} /\ TakenInode' = TakenInode /\ TakenData' = TakenData /\ Taken' = Taken
  BY <1>0, <1>1, <1>2, TakenFacts, TakenNext DEF Taken, Creating
<1>4. op.sector \notin Roots
  <2>1. op.sector \in Reachable(op.sector)
    BY ZenonT(60) DEF Reachable
  <2> QED BY ZenonT(60), <1>3, <2>1 DEF DiskInv, OpInv, Taken
<1>5. Kept
  <2>1. CASE dinode' = dinode
    BY ZenonT(60), <2>1, <1>0 DEF Kept
  <2>2. CASE dinode' = [dinode EXCEPT ![op.sector] = [start |-> op.start, len |-> op.size]]
    BY <2>2, <1>0, <1>4, WhileUp DEF Kept
  <2> QED BY <2>1, <2>2, <1>0
<1> QED BY ZenonT(60), <1>0, <1>3, <1>5, PassAccount

(* Sectors that free_map_release gives back were the operation's, and it has *)
(* them no more.                                                             *)
LEMMA ReleaseAccount ==
    ASSUME Sane, DiskInv, AccountInv, ~MallocFails, up, up', Kept,
           NEW S, NEW L, free_map_release(S), leaked' = leaked \cup L,
           Taken = Taken' \cup S \cup L, S \cap Taken' = {}, S \cap L = {}, L \cap Taken' = {}
    PROVE  AccountInv'
<1>1. free_map' = free_map \ S /\ dmap' = free_map'
  BY ZenonT(60) DEF free_map_release, MayFail
<1>2. free_map = System \cup InUse \cup Taken \cup leaked /\ leaked \cap (InUse \cup Taken) = {}
  BY ZenonT(60) DEF AccountInv, Owned
<1>3. Taken \cap System = {} /\ Taken \cap InUse = {}
  <2>1. Taken \cap System = {} /\ \A s \in Roots : Taken \cap Reachable(s) = {}
    BY ZenonT(60) DEF DiskInv, OpInv
  <2>2. \A x \in InUse : \E s \in Roots : x \in Reachable(s)
    BY ZenonT(60) DEF InUse
  <2> QED BY ZenonT(60), <2>1, <2>2
<1>4. Owned' = InUse \cup Taken'
  BY ZenonT(60), SameUse
<1>5. PICK T : T = Taken'
  BY ZenonT(60)
<1>6. free_map' = System \cup Owned' \cup leaked'
  BY SMTT(20), <1>1, <1>2, <1>3, <1>4, <1>5
<1>7. leaked' \cap Owned' = {}
  BY ZenonT(60), <1>2, <1>3, <1>4, <1>5
<1> QED BY ZenonT(60), <1>1, <1>6, <1>7, KeptOpen, Balanced

(* The three releases.                                                       *)
LEMMA ReleasesAccount ==
    ASSUME Sane, DiskInv, AccountInv, ~MallocFails, Undo \/ ReleaseInode \/ ReleaseData
    PROVE  AccountInv'
<1>a. TakenInode \cap TakenData = {}
  BY ZenonT(60) DEF DiskInv, OpInv
<1>1. CASE Undo
  <2>0. /\ up /\ op.do = "undo" /\ free_map_release({op.sector}) /\ op' = Idle
        /\ leaked' = leaked \cup (IF op.start # 0 THEN Run(op.start, op.size) ELSE {})
        /\ UNCHANGED <<dinode, slot, up, open>>
    BY ZenonT(60), <1>1 DEF Undo, At, Finish
  <2>1. Taken = {op.sector} \cup TakenData /\ TakenInode = {op.sector} /\ leaked' = leaked \cup TakenData
    BY <2>0, TakenFacts DEF Taken
  <2>2. op'.do = "idle"
    BY <2>0 DEF Idle
  <2>3. Taken' = {}
    BY ZenonT(60), <2>2, TakenNext DEF Taken
  <2>4. Kept
    BY <2>0 DEF Kept
  <2>5. PICK L : L = TakenData
    BY ZenonT(60)
  <2>6. /\ Taken = Taken' \cup {op.sector} \cup L /\ {op.sector} \cap Taken' = {} /\ {op.sector} \cap L = {}
        /\ L \cap Taken' = {} /\ leaked' = leaked \cup L
    BY ZenonT(60), <1>a, <2>1, <2>3, <2>5
  <2> QED BY ZenonT(60), <2>0, <2>4, <2>6, ReleaseAccount
<1>2. CASE ReleaseInode
  <2>0. /\ up /\ op.do = "release_inode" /\ free_map_release({op.sector})
        /\ op' = [op EXCEPT !.do = "release_data"]
        /\ UNCHANGED <<dinode, slot, up, open, leaked>>
    BY ZenonT(60), <1>2 DEF ReleaseInode, At, Do
  <2>1. TakenInode = {op.sector} /\ TakenData = Run(op.start, op.size)
    BY <2>0, TakenFacts
  <2>2. op'.do = "release_data" /\ op'.start = op.start /\ op'.size = op.size
    BY <2>0, WhileUp DEF Ops
  <2>3. Taken' = TakenData
    BY ZenonT(60), <2>1, <2>2, TakenNext DEF Taken
  <2>4. Kept
    BY <2>0 DEF Kept
  <2>6. /\ Taken = Taken' \cup {op.sector} \cup {} /\ {op.sector} \cap Taken' = {} /\ {op.sector} \cap {} = {}
        /\ {} \cap Taken' = {} /\ leaked' = leaked \cup {}
    BY ZenonT(60), <1>a, <2>0, <2>1, <2>3 DEF Taken
  <2> QED BY ZenonT(60), <2>0, <2>4, <2>6, ReleaseAccount
<1>3. CASE ReleaseData
  <2>0. /\ up /\ op.do = "release_data" /\ free_map_release(Run(op.start, op.size)) /\ op' = Idle
        /\ UNCHANGED <<dinode, slot, up, open, leaked>>
    BY ZenonT(60), <1>3 DEF ReleaseData, At, Finish, ghosts
  <2>1. Taken = Run(op.start, op.size)
    BY <2>0, TakenFacts DEF Taken
  <2>2. op'.do = "idle"
    BY <2>0 DEF Idle
  <2>3. Taken' = {}
    BY ZenonT(60), <2>2, TakenNext DEF Taken
  <2>4. Kept
    BY <2>0 DEF Kept
  <2>5. PICK S : S = Run(op.start, op.size)
    BY ZenonT(60)
  <2>6. /\ Taken = Taken' \cup S \cup {} /\ S \cap Taken' = {} /\ S \cap {} = {}
        /\ {} \cap Taken' = {} /\ leaked' = leaked \cup {} /\ free_map_release(S)
    BY ZenonT(60), <2>0, <2>1, <2>3, <2>5
  <2> QED BY ZenonT(60), <2>0, <2>4, <2>6, ReleaseAccount
<1> QED BY <1>1, <1>2, <1>3

(* A step under which the inodes in use and an operation's sectors change    *)
(* hands, the free map staying as it is.                                     *)
LEMMA HandOver ==
    ASSUME AccountInv, up, UNCHANGED <<dmap, up, free_map, leaked>>,
           \A s : Reachable(s)' = Reachable(s), NEW S,
           Roots' \cup S = Roots, Taken = {}, Taken' = UNION {Reachable(s) : s \in S},
           (\A s \in Opened : ~open[s].removed => s \in Named)'
    PROVE  AccountInv'
<1>1. InUse' = UNION {Reachable(s) : s \in Roots'}
  BY ZenonT(60) DEF InUse
<1>2. PICK R : R = Roots'
  BY ZenonT(60)
<1>3. (UNION {Reachable(s) : s \in R}) \cup (UNION {Reachable(s) : s \in S}) = UNION {Reachable(s) : s \in R \cup S}
  BY ZenonT(60)
<1>4. Owned' = InUse' \cup Taken'
  BY ZenonT(60) DEF Owned
<1>5. Owned' = InUse
  BY ZenonT(60), <1>1, <1>2, <1>3, <1>4 DEF InUse
<1>6. Owned = InUse
  BY ZenonT(60) DEF Owned
<1> QED BY ZenonT(60), <1>5, <1>6, Balanced DEF AccountInv

(* dir_add names the inode, or filesys_create must undo.                     *)
LEMMA AddAccount ==
    ASSUME Sane, HaveMinima, DiskInv, AccountInv, ~MallocFails, Add
    PROVE  AccountInv'
<1>0. /\ up /\ op.do = "add" /\ UNCHANGED <<dmap, dinode, up, free_map, open, leaked>>
      /\ \/ op' = [op EXCEPT !.do = "undo"] /\ slot' = slot
         \/ /\ Min(Unused) \in Slots
            /\ slot' = [slot EXCEPT ![Min(Unused)] = [name |-> op.name, sector |-> op.sector]] /\ op' = Idle
  BY ZenonT(60) DEF Add, At, Do, Finish, memory, ghosts, FreeSlot, MayFail
<1>1. CASE op' = [op EXCEPT !.do = "undo"] /\ slot' = slot
  <2>1. op'.do = "undo" /\ op'.sector = op.sector /\ op'.start = op.start /\ op'.size = op.size
    BY <1>0, <1>1, WhileUp DEF Ops
  <2>2. op.start = 0 => Run(op.start, op.size) = {}
    BY <1>0, CreatingFacts DEF Creating
  <2>3. Taken' = Taken
    BY <1>0, <2>1, <2>2, TakenFacts, TakenNext DEF Taken, Creating
  <2>4. Kept
    BY <1>0, <1>1 DEF Kept
  <2> QED BY ZenonT(60), <1>0, <2>3, <2>4, PassAccount
<1>2. CASE /\ Min(Unused) \in Slots /\ op' = Idle
           /\ slot' = [slot EXCEPT ![Min(Unused)] = [name |-> op.name, sector |-> op.sector]]
  <2>1. PICK k \in Slots : k = Min(Unused)
    BY ZenonT(60), <1>2
  <2>2. slot[k] = Null
    BY ZenonT(60), <2>1, FreeSlotIsFree
  <2>3. slot'[k].sector = op.sector /\ slot'[k] # Null /\ \A j \in Slots : j # k => slot'[j] = slot[j]
    <3>1. [name |-> op.name, sector |-> op.sector] \in Entries
      BY <1>0, WhileUp, CreatingFacts DEF Entries, Creating
    <3>2. slot \in [Slots -> Entries \cup {Null}]
      BY ZenonT(60) DEF DiskInv, TypeInv
    <3> QED BY <1>2, <2>1, <3>1, <3>2, SectorFacts
  <2>4. Named' = Named \cup {op.sector} /\ Opened' = Opened
    <3>1. Opened' = Opened
      BY ZenonT(60), <1>0 DEF Opened
    <3>2. Named \subseteq Named' /\ op.sector \in Named'
      BY ZenonT(60), <2>1, <2>2, <2>3 DEF Named
    <3>3. Named' \subseteq Named \cup {op.sector}
      BY ZenonT(60), <2>1, <2>2, <2>3 DEF Named
    <3> QED BY ZenonT(60), <3>1, <3>2, <3>3
  <2>5. Roots' = Roots \cup {op.sector} /\ \A s : Reachable(s)' = Reachable(s)
    BY ZenonT(60), <1>0, <2>4 DEF Roots, Reachable
  <2>6. Reachable(op.sector) = Taken
    BY <1>0, CreatingFacts DEF Creating, Reachable
  <2>7. op'.do = "idle"
    BY <1>2 DEF Idle
  <2>8. Taken' = {}
    BY ZenonT(60), <2>7, TakenNext DEF Taken
  <2>9. InUse' = InUse \cup Taken
    <3>1. InUse' = UNION {Reachable(s) : s \in Roots \cup {op.sector}}
      BY ZenonT(60), <2>5 DEF InUse
    <3>2. UNION {Reachable(s) : s \in Roots \cup {op.sector}} = InUse \cup Reachable(op.sector)
      BY ZenonT(60) DEF InUse
    <3> QED BY ZenonT(60), <3>1, <3>2, <2>6
  <2>10. Owned' = Owned
    BY ZenonT(60), <2>8, <2>9 DEF Owned
  <2>11. (\A s \in Opened : ~open[s].removed => s \in Named)'
    BY ZenonT(60), <1>0, <2>4 DEF AccountInv
  <2> QED BY ZenonT(60), <1>0, <2>10, <2>11, Balanced DEF AccountInv
<1> QED BY ZenonT(60), <1>0, <1>1, <1>2

(* filesys_open and filesys_remove open an inode that has a name.            *)
LEMMA OpensAccount ==
    ASSUME Sane, HaveMinima, DiskInv, AccountInv, NEW name, filesys_open(name) \/ filesys_remove(name)
    PROVE  AccountInv'
<1>0. PICK k \in lookup(name) : k # Null /\ open' = inode_open(slot[k].sector)
  BY ZenonT(60) DEF filesys_open, filesys_remove
<1>1. /\ up /\ op.do = "idle" /\ UNCHANGED <<dmap, dinode, slot, up, free_map, leaked>>
      /\ op' = op \/ \E n, s : op' = [Idle EXCEPT !.do = "erase", !.k = n, !.sector = s]
  BY ZenonT(60) DEF filesys_open, filesys_remove, At, disk, ghosts
<1>2. op'.do \in {"idle", "erase"}
  BY ZenonT(60), <1>1 DEF Idle
<1>3. Taken = {} /\ Taken' = {}
  BY ZenonT(60), <1>1, <1>2, TakenFacts, TakenNext DEF Taken
<1>4. PICK s : s = slot[k].sector
  BY ZenonT(60)
<1>5. k \in Slots /\ slot[k] # Null
  BY ZenonT(60), <1>0, LookupFinds
<1>6. s \in Named
  BY ZenonT(60), <1>4, <1>5 DEF Named
<1>7. /\ Opened' = Opened \cup {s} /\ Named' = Named /\ Roots' = Roots
      /\ \A r \in Sectors : r # s => open'[r] = open[r]
  BY ZenonT(60), <1>0, <1>1, <1>4, <1>6, InodeOpened
<1>8. \A r : Reachable(r)' = Reachable(r)
  BY ZenonT(60), <1>1 DEF Reachable
<1>9. (\A r \in Opened : ~open[r].removed => r \in Named)'
  BY ZenonT(60), <1>6, <1>7 DEF AccountInv, Opened
<1>10. Roots' \cup {} = Roots /\ Taken' = UNION {Reachable(r) : r \in {}}
  BY ZenonT(60), <1>3, <1>7
<1> QED BY ZenonT(60), <1>1, <1>3, <1>8, <1>9, <1>10, HandOver

(* An inode that goes out of use hands its sectors to the operation.         *)
LEMMA LeavesAccount ==
    ASSUME Sane, DiskInv, AccountInv, up, UNCHANGED <<dmap, dinode, up, free_map, leaked>>, Taken = {},
           NEW s, Roots' = Roots \ {s}, s \in Roots,
           op'.do = "release_inode", op'.sector = s, op'.start = dinode[s].start, op'.size = dinode[s].len,
           (\A r \in Opened : ~open[r].removed => r \in Named)'
    PROVE  AccountInv'
<1>1. \A r : Reachable(r)' = Reachable(r)
  BY ZenonT(60) DEF Reachable
<1>2. Taken' = Reachable(s)
  BY ZenonT(60), TakenNext DEF Taken, Reachable
<1>3. Taken' = UNION {Reachable(r) : r \in {s}} /\ Roots' \cup {s} = Roots
  BY ZenonT(60), <1>2
<1> QED BY ZenonT(60), <1>1, <1>3, HandOver

(* file_close.                                                               *)
LEMMA CloseAccount ==
    ASSUME Sane, DiskInv, AccountInv, NEW f, file_close(f)
    PROVE  AccountInv'
<1>0. /\ up /\ op.do = "idle" /\ f \in files /\ open' = inode_close(f.sector)
      /\ UNCHANGED <<dmap, dinode, slot, up, free_map, leaked>>
      /\ IF open[f.sector].removed /\ open[f.sector].cnt = 1
         THEN op' = [Idle EXCEPT !.do = "release_inode", !.sector = f.sector,
                                 !.start = open[f.sector].start, !.size = open[f.sector].len]
         ELSE op' = op
  BY ZenonT(60) DEF file_close, At, disk, ghosts
<1>1. PICK s : s = f.sector
  BY ZenonT(60)
<1>2. /\ s \in Opened /\ s \in Sectors /\ s \in Roots
      /\ open[s].start = dinode[s].start /\ open[s].len = dinode[s].len
      /\ open[s].removed => s \notin Named
      /\ ~open[s].removed => s \in Named
  BY ZenonT(60), <1>0, <1>1 DEF DiskInv, OpenInv, Opened, Roots, AccountInv
<1>3. /\ \A r \in Sectors : r # s => open'[r] = open[r]
      /\ open[s].cnt = 1 => Opened' = Opened \ {s}
      /\ open[s].cnt # 1 => Opened' = Opened /\ open'[s].removed = open[s].removed
  BY ZenonT(60), <1>0, <1>1, <1>2, InodeClosed
<1>4. Named' = Named /\ \A r : Reachable(r)' = Reachable(r)
  BY ZenonT(60), <1>0 DEF Named, Reachable
<1>5. (\A r \in Opened : ~open[r].removed => r \in Named)'
  BY ZenonT(60), <1>2, <1>3, <1>4 DEF AccountInv, Opened
<1>6. Taken = {}
  BY ZenonT(60), <1>0, TakenFacts DEF Taken
<1>7. CASE open[s].removed /\ open[s].cnt = 1
  <2>1. op'.do = "release_inode" /\ op'.sector = s /\ op'.start = dinode[s].start /\ op'.size = dinode[s].len
    BY ZenonT(60), <1>0, <1>1, <1>2, <1>7 DEF Idle
  <2>2. Roots' = Roots \ {s}
    BY ZenonT(60), <1>2, <1>3, <1>4, <1>7 DEF Roots
  <2> QED BY ZenonT(60), <2>1, <2>2, <1>0, <1>2, <1>5, <1>6, LeavesAccount
<1>8. CASE ~(open[s].removed /\ open[s].cnt = 1)
  <2>1. op' = op
    BY ZenonT(60), <1>0, <1>1, <1>8
  <2>2. Taken' = {}
    BY ZenonT(60), <2>1, <1>0, TakenNext DEF Taken
  <2>3. Roots' \cup {} = Roots
    BY ZenonT(60), <1>2, <1>3, <1>4, <1>8 DEF Roots
  <2>4. Taken' = UNION {Reachable(r) : r \in {}}
    BY ZenonT(60), <2>2
  <2> QED BY ZenonT(60), <1>0, <1>4, <1>5, <1>6, <2>3, <2>4, HandOver
<1> QED BY <1>7, <1>8

(* dir_remove erases the entry, and closes or releases the inode.            *)
LEMMA EraseAccount ==
    ASSUME Sane, DiskInv, AccountInv, ~MallocFails, Erase
    PROVE  AccountInv'
<1>0. /\ up /\ op.do = "erase" /\ UNCHANGED <<dmap, dinode, up, free_map, leaked>>
      /\ slot' = [slot EXCEPT ![op.k] = Null]
  BY ZenonT(60) DEF Erase, At, ghosts, MayFail
<1>a. \/ /\ open[op.sector].cnt = 1 /\ open' = inode_close(op.sector)
         /\ op' = [op EXCEPT !.do = "release_inode", !.start = open[op.sector].start, !.size = open[op.sector].len]
      \/ /\ open[op.sector].cnt # 1 /\ op' = Idle
         /\ open' = [open EXCEPT ![op.sector] = [open[op.sector] EXCEPT !.cnt = open[op.sector].cnt - 1, !.removed = TRUE]]
  BY ZenonT(60) DEF Erase, Finish, MayFail
<1>1. PICK s : s = op.sector
  BY ZenonT(60)
<1>2. /\ op.k \in Slots /\ slot[op.k] # Null /\ slot[op.k].sector = s
      /\ s \in Opened /\ s \in Sectors /\ s \in Roots /\ s \in Named
      /\ open[s].start = dinode[s].start /\ open[s].len = dinode[s].len
      /\ slot \in [Slots -> Entries \cup {Null}] /\ open \in [Sectors -> Handles \cup {Null}]
  <2>1. op.k \in Slots /\ slot[op.k] # Null /\ slot[op.k].sector = s /\ s \in Opened
        /\ slot \in [Slots -> Entries \cup {Null}] /\ open \in [Sectors -> Handles \cup {Null}]
    BY ZenonT(60), <1>0, <1>1 DEF DiskInv, OpenInv, TypeInv
  <2> QED BY ZenonT(60), <2>1 DEF Opened, Named, Roots, DiskInv, OpenInv
<1>3. Named' = Named \ {s}
  <2>1. slot'[op.k] = Null /\ \A k \in Slots : k # op.k => slot'[k] = slot[k]
    BY <1>0, <1>2
  <2>2. \A k \in Slots : k # op.k /\ slot[k] # Null => slot[k].sector # s
    BY ZenonT(60), <1>2 DEF DiskInv, MapInv
  <2>3. Named' \subseteq Named \ {s}
    BY ZenonT(60), <2>1, <2>2 DEF Named
  <2>4. Named \ {s} \subseteq Named'
    <3> SUFFICES ASSUME NEW r \in Named, r # s PROVE r \in Named'
      BY ZenonT(60)
    <3>1. PICK k \in Slots : slot[k] # Null /\ r = slot[k].sector
      BY ZenonT(60) DEF Named
    <3>2. slot'[k] = slot[k]
      BY ZenonT(60), <3>1, <2>1, <1>2
    <3> QED BY ZenonT(60), <3>1, <3>2 DEF Named
  <2> QED BY ZenonT(60), <2>3, <2>4
<1>4. Taken = {} /\ \A r : Reachable(r)' = Reachable(r)
  BY ZenonT(60), <1>0, TakenFacts DEF Taken, Reachable
<1>5. CASE /\ open[s].cnt = 1 /\ open' = inode_close(s)
           /\ op' = [op EXCEPT !.do = "release_inode", !.start = open[s].start, !.size = open[s].len]
  <2>1. Opened' = Opened \ {s} /\ \A r \in Sectors : r # s => open'[r] = open[r]
    BY ZenonT(60), <1>2, <1>5, InodeClosed
  <2>2. Roots' = Roots \ {s}
    BY ZenonT(60), <2>1, <1>3 DEF Roots
  <2>3. (\A r \in Opened : ~open[r].removed => r \in Named)'
    BY ZenonT(60), <2>1, <1>3 DEF AccountInv, Opened
  <2>4. op'.do = "release_inode" /\ op'.sector = s /\ op'.start = dinode[s].start /\ op'.size = dinode[s].len
    BY <1>0, <1>1, <1>2, <1>5, WhileUp DEF Ops
  <2> QED BY ZenonT(60), <2>2, <2>3, <2>4, <1>0, <1>2, <1>4, LeavesAccount
<1>6. CASE /\ open[s].cnt # 1 /\ op' = Idle
           /\ open' = [open EXCEPT ![s] = [open[s] EXCEPT !.cnt = open[s].cnt - 1, !.removed = TRUE]]
  <2>1. PICK new : new = [open[s] EXCEPT !.cnt = open[s].cnt - 1, !.removed = TRUE]
    BY ZenonT(60)
  <2>2. open[s] \in Handles /\ open[s].cnt > 0
    BY ZenonT(60), <1>2 DEF Opened, DiskInv, OpenInv
  <2>3. new.removed /\ new \in Handles
    <3>1. open[s].cnt - 1 \in Nat
      BY <2>2 DEF Handles
    <3> QED BY ZenonT(60), <2>1, <2>2, <3>1 DEF Handles
  <2>4. open'[s] = new /\ new # Null /\ \A r \in Sectors : r # s => open'[r] = open[r]
    BY <1>2, <1>6, <2>1, <2>3, SectorFacts
  <2>5. Opened' = Opened
    BY ZenonT(60), <1>2, <2>4 DEF Opened
  <2>6. Roots' \cup {} = Roots
    BY ZenonT(60), <1>2, <1>3, <2>5 DEF Roots
  <2>7. (\A r \in Opened : ~open[r].removed => r \in Named)'
    BY ZenonT(60), <2>3, <2>4, <2>5, <1>3 DEF AccountInv, Opened
  <2>8. op'.do = "idle"
    BY <1>6 DEF Idle
  <2>9. Taken' = UNION {Reachable(r) : r \in {}}
    BY ZenonT(60), <2>8, TakenNext DEF Taken
  <2> QED BY ZenonT(60), <1>0, <1>4, <2>6, <2>7, <2>9, HandOver
<1> QED BY ZenonT(60), <1>a, <1>1, <1>5, <1>6

(* file_write changes no inode and no entry.                                 *)
LEMMA WriteAccount ==
    ASSUME AccountInv, NEW f, file_write(f)
    PROVE  AccountInv'
<1>0. up /\ UNCHANGED <<dmap, dinode, slot, up, free_map, open, op, leaked>>
  BY ZenonT(60) DEF file_write, At, memory
<1>1. Kept
  BY ZenonT(60), <1>0 DEF Kept
<1>2. Taken' = Taken
  BY ZenonT(60), <1>0 DEF Taken, TakenInode, TakenData
<1> QED BY ZenonT(60), <1>0, <1>1, <1>2, PassAccount

(* What the entries refer to, slot by slot and inode by inode.               *)
LEMMA ReferencedIs == Referenced = UNION {Reachable(s) : s \in Named}
BY ZenonT(60) DEF Referenced, Named

(* Starting a file system that holds what it held when it stopped.           *)
LEMMA StartsAccount ==
    ASSUME Sane, DiskInv, AccountInv, do_format \/ filesys_init
    PROVE  AccountInv'
<1>0. ~up /\ up' /\ UNCHANGED <<open, op, leaked>>
  BY ZenonT(60) DEF do_format, filesys_init, ghosts
<1>1. op = Idle /\ op'.do = "idle" /\ Opened = {} /\ Opened' = {} /\ Roots' = Named'
  <2>1. op = Idle /\ op'.do = "idle"
    BY <1>0, WhileDown DEF Idle
  <2>2. Opened = {} /\ Opened' = Opened
    BY ZenonT(60), <1>0, WhileDown DEF Opened
  <2> QED BY ZenonT(60), <2>1, <2>2 DEF Roots
<1>2. Taken' = {}
  BY ZenonT(60), <1>1, TakenNext DEF Taken
<1>3. leaked = dmap \ (Referenced \cup System)
  BY ZenonT(60), <1>0 DEF AccountInv
<1>4. /\ dmap' = free_map' /\ System' = System /\ free_map' = System \cup InUse' \cup leaked
      /\ leaked \cap InUse' = {}
  <2>1. CASE do_format
    <3>1. dmap = {} /\ dmap' = System /\ free_map' = System /\ slot' = [k \in Slots |-> Null]
      BY ZenonT(60), <2>1 DEF do_format, System
    <3>2. Named' = {}
      BY <3>1 DEF Named
    <3>3. InUse' = {} /\ leaked = {}
      BY ZenonT(60), <3>1, <3>2, <1>1, <1>3 DEF InUse
    <3> QED BY ZenonT(60), <3>1, <3>3 DEF System
  <2>2. CASE filesys_init
    <3>1. dmap # {} /\ dmap' = dmap /\ free_map' = dmap /\ UNCHANGED <<slot, dinode>>
      BY ZenonT(60), <2>2 DEF filesys_init, disk
    <3>2. InUse' = Referenced
      <4>1. Roots' = Named /\ \A s : Reachable(s)' = Reachable(s)
        BY ZenonT(60), <3>1, <1>1 DEF Named, Reachable
      <4> QED BY ZenonT(60), <4>1, ReferencedIs DEF InUse
    <3>3. System \subseteq dmap /\ Referenced \subseteq dmap
      <4>1. System \subseteq dmap /\ \A s \in Named : Reachable(s) \subseteq dmap
        BY ZenonT(60), <3>1 DEF DiskInv, MapInv
      <4>2. \A x \in Referenced : \E s \in Named : x \in Reachable(s)
        BY ZenonT(60), ReferencedIs
      <4> QED BY ZenonT(60), <4>1, <4>2
    <3> QED BY ZenonT(60), <3>1, <3>2, <3>3, <1>3 DEF System
  <2> QED BY <2>1, <2>2
<1>5. Owned' = InUse'
  BY ZenonT(60), <1>2 DEF Owned
<1> QED BY ZenonT(60), <1>0, <1>1, <1>4, <1>5 DEF AccountInv

(* Stopping: what no entry refers to is lost until the next format.          *)
LEMMA StopsAccount ==
    ASSUME Stop \/ filesys_done
    PROVE  AccountInv'
<1>1. /\ ~up' /\ open' = [s \in Sectors |-> Null] /\ leaked' = dmap \ (Referenced \cup System)
      /\ UNCHANGED <<dmap, slot, dinode>>
  BY ZenonT(60) DEF Stop, filesys_done, disk
<1>2. Opened' = {}
  BY <1>1 DEF Opened
<1>3. Referenced' = Referenced /\ System' = System
  BY ZenonT(60), <1>1 DEF Referenced, Reachable, System
<1> QED BY ZenonT(60), <1>1, <1>2, <1>3 DEF AccountInv

-----------------------------------------------------------------------------
(* Names stay unique while the directory stays as it is.                     *)
LEMMA SameNames ==
    ASSUME NamesInv, slot' = slot, op'.do # "add"
    PROVE  NamesInv'
BY ZenonT(60) DEF NamesInv, NamesUnique

(* dir_add goes on only when lookup went through the whole directory.        *)
LEMMA LookNames ==
    ASSUME Sane, HaveMinima, DiskInv, NamesInv, ~MallocFails, Look
    PROVE  NamesInv'
<1>0. PICK found \in lookup(op.name) :
        op' = [op EXCEPT !.do = IF found = Null /\ op.name \notin BadNames THEN "add" ELSE "undo"]
  BY ZenonT(60) DEF Look, Do
<1>1. up /\ slot' = slot
  BY ZenonT(60) DEF Look, At, disk
<1>2. op'.name = op.name /\ (op'.do = "add" => found = Null)
  BY <1>0, <1>1, WhileUp DEF Ops
<1>3. found = Null => Entry(op.name) = {}
  <2>1. Entry(op.name) # {} => found = Min(Entry(op.name)) /\ Min(Entry(op.name)) \in Entry(op.name)
    <3>1. Entry(op.name) \subseteq Nat
      BY ZenonT(60), SectorFacts DEF Entry
    <3> QED BY ZenonT(60), <3>1, MinIsIn DEF lookup, MayFail
  <2>2. Entry(op.name) \subseteq Slots
    BY ZenonT(60) DEF Entry
  <2> QED BY ZenonT(60), <2>1, <2>2, SectorFacts
<1>4. op'.do = "add" => Entry(op.name)' = {}
  <2>1. Entry(op.name)' = Entry(op.name)
    BY ZenonT(60), <1>1, <1>2 DEF Entry
  <2> QED BY ZenonT(60), <2>1, <1>2, <1>3
<1>5. NamesUnique'
  BY ZenonT(60), <1>1 DEF NamesInv, NamesUnique
<1> QED BY ZenonT(60), <1>4, <1>5 DEF NamesInv

(* dir_add writes the one entry of its name.                                 *)
LEMMA AddNames ==
    ASSUME Sane, DiskInv, NamesInv, Add
    PROVE  NamesInv'
<1>0. /\ up /\ op.do = "add"
      /\ \/ op' = [op EXCEPT !.do = "undo"] /\ slot' = slot
         \/ \E k \in Slots : op' = Idle /\ slot' = [slot EXCEPT ![k] = [name |-> op.name, sector |-> op.sector]]
  BY ZenonT(60) DEF Add, At, Do, Finish
<1>1. op'.do # "add"
  BY <1>0, WhileUp DEF Ops, Idle
<1>2. CASE slot' = slot
  BY ZenonT(60), <1>1, <1>2, SameNames
<1>3. CASE \E k \in Slots : slot' = [slot EXCEPT ![k] = [name |-> op.name, sector |-> op.sector]]
  <2>1. PICK k \in Slots : slot' = [slot EXCEPT ![k] = [name |-> op.name, sector |-> op.sector]]
    BY ZenonT(60), <1>3
  <2>2. slot'[k].name = op.name /\ \A j \in Slots : j # k => slot'[j] = slot[j]
    BY <2>1 DEF DiskInv, TypeInv
  <2>3. \A j \in Slots : slot[j] # Null => slot[j].name # op.name
    BY ZenonT(60), <1>0 DEF NamesInv, Entry
  <2>4. NamesUnique'
    BY ZenonT(60), <2>2, <2>3 DEF NamesInv, NamesUnique
  <2> QED BY ZenonT(60), <1>1, <2>4 DEF NamesInv
<1> QED BY ZenonT(60), <1>0, <1>2, <1>3

(* dir_remove and formatting only take entries away.                         *)
LEMMA FewerNames ==
    ASSUME NamesInv, \A k \in Slots : slot'[k] = slot[k] \/ slot'[k] = Null, op'.do # "add"
    PROVE  NamesInv'
<1>1. ASSUME NEW j \in Slots, NEW k \in Slots, slot'[j] # Null, slot'[k] # Null, slot'[j].name = slot'[k].name
      PROVE  j = k
  <2>1. slot'[j] = slot[j] /\ slot'[k] = slot[k]
    BY ZenonT(60), <1>1
  <2> QED BY ZenonT(60), <1>1, <2>1 DEF NamesInv, NamesUnique
<1> QED BY ZenonT(60), <1>1 DEF NamesInv, NamesUnique

(* Every other step leaves the names alone or takes them away.               *)
LEMMA OtherNames ==
    ASSUME Sane, DiskInv, NamesInv, Next, ~Look, ~Add
    PROVE  NamesInv'
<1> SUFFICES /\ \A k \in Slots : slot'[k] = slot[k] \/ slot'[k] = Null
             /\ op'.do # "add"
  BY ZenonT(60), FewerNames
<1>0. op \in Ops
  BY ZenonT(60) DEF DiskInv, TypeInv
<1>1. CASE do_format
  <2>1. slot' = [k \in Slots |-> Null] /\ op' = op /\ ~up
    BY ZenonT(60), <1>1 DEF do_format
  <2> QED BY <2>1, WhileDown DEF Idle
<1>2. CASE filesys_init
  <2>1. slot' = slot /\ op' = op /\ ~up
    BY ZenonT(60), <1>2 DEF filesys_init, disk
  <2> QED BY <2>1, WhileDown DEF Idle
<1>3. CASE Stop \/ filesys_done
  <2>1. slot' = slot /\ (op' = Idle \/ (op' = op /\ op.do = "idle"))
    BY ZenonT(60), <1>3 DEF Stop, filesys_done, At, disk
  <2> QED BY <2>1 DEF Idle
<1>4. CASE \E n \in Names : filesys_open(n) \/ filesys_remove(n) \/ \E size \in Sizes : filesys_create(n, size)
  <2>1. PICK n \in Names : filesys_open(n) \/ filesys_remove(n) \/ \E size \in Sizes : filesys_create(n, size)
    BY ZenonT(60), <1>4
  <2>2. CASE filesys_open(n)
    BY ZenonT(60), <2>2 DEF filesys_open, At, disk
  <2>3. CASE filesys_remove(n)
    <3>1. slot' = slot /\ \E k, x : op' = [Idle EXCEPT !.do = "erase", !.k = k, !.sector = x]
      BY ZenonT(60), <2>3 DEF filesys_remove, disk
    <3> QED BY <3>1 DEF Idle
  <2>4. CASE \E size \in Sizes : filesys_create(n, size)
    <3>1. slot' = slot
      BY ZenonT(60), <2>4 DEF filesys_create, disk
    <3>2. op.do = "idle" /\ (op' = op \/ \E size : op' = [Idle EXCEPT !.do = "alloc_inode", !.name = n, !.size = size])
      BY ZenonT(60), <2>4 DEF filesys_create, At
    <3> QED BY ZenonT(60), <3>1, <3>2 DEF Idle
  <2> QED BY ZenonT(60), <2>1, <2>2, <2>3, <2>4
<1>5. CASE AllocInode \/ AllocData
  <2>1. slot' = slot
    BY ZenonT(60), <1>5 DEF AllocInode, AllocData
  <2>2. CASE AllocInode
    <3>1. op' = Idle \/ \E x : op' = [op EXCEPT !.do = "alloc_data", !.sector = x]
      BY ZenonT(60), <2>2 DEF AllocInode, free_map_allocate, Finish
    <3>2. op' = Idle => op'.do # "add"
      BY DEF Idle
    <3>3. (\E x : op' = [op EXCEPT !.do = "alloc_data", !.sector = x]) => op'.do # "add"
      BY <1>0 DEF Ops
    <3> QED BY ZenonT(60), <2>1, <3>1, <3>2, <3>3
  <2>3. CASE AllocData
    <3>1. op' = [op EXCEPT !.do = "undo"] \/ \E x : op' = [op EXCEPT !.do = "put_inode", !.start = x]
      BY ZenonT(60), <2>3 DEF AllocData, free_map_allocate, Do
    <3> QED BY ZenonT(60), <2>1, <3>1, <1>0 DEF Ops
  <2> QED BY <1>5, <2>2, <2>3
<1>6. CASE PutInode
  <2>1. slot' = slot /\ op' = [op EXCEPT !.do = "zeros"]
    BY ZenonT(60), <1>6 DEF PutInode, Do
  <2> QED BY <2>1, <1>0 DEF Ops
<1>7. CASE Zeros
  <2>1. slot' = slot /\ op.do = "zeros" /\ (op' = [op EXCEPT !.do = "look"] \/ op' = [op EXCEPT !.k = op.k + 1])
    BY ZenonT(60), <1>7 DEF Zeros, Do, At
  <2> QED BY <2>1, <1>0 DEF Ops
<1>8. CASE Undo \/ ReleaseData
  <2>1. slot' = slot /\ op' = Idle
    BY ZenonT(60), <1>8 DEF Undo, ReleaseData, Finish
  <2> QED BY <2>1 DEF Idle
<1>9. CASE ReleaseInode
  <2>1. slot' = slot /\ op' = [op EXCEPT !.do = "release_data"]
    BY ZenonT(60), <1>9 DEF ReleaseInode, Do
  <2> QED BY <2>1, <1>0 DEF Ops
<1>10. CASE \E f \in files : file_close(f) \/ file_write(f)
  <2>1. slot' = slot /\ op.do = "idle"
    BY ZenonT(60), <1>10 DEF file_close, file_write, At, disk
  <2>2. op' = op \/ \E x, y, z : op' = [Idle EXCEPT !.do = "release_inode", !.sector = x, !.start = y, !.size = z]
    BY ZenonT(60), <1>10 DEF file_close, file_write
  <2> QED BY ZenonT(60), <2>1, <2>2 DEF Idle
<1>11. CASE Erase
  <2>1. slot' = slot \/ slot' = [slot EXCEPT ![op.k] = Null]
    BY ZenonT(60), <1>11 DEF Erase
  <2>2. op' = Idle \/ \E y, z : op' = [op EXCEPT !.do = "release_inode", !.start = y, !.size = z]
    BY ZenonT(60), <1>11 DEF Erase, Finish
  <2>3. \A k \in Slots : slot'[k] = slot[k] \/ slot'[k] = Null
    BY <2>1 DEF DiskInv, TypeInv
  <2>4. op' = Idle => op'.do # "add"
    BY DEF Idle
  <2>5. (\E y, z : op' = [op EXCEPT !.do = "release_inode", !.start = y, !.size = z]) => op'.do # "add"
    BY <1>0 DEF Ops
  <2> QED BY ZenonT(60), <2>2, <2>3, <2>4, <2>5
<1> QED BY ZenonT(60), <1>1, <1>2, <1>3, <1>4, <1>5, <1>6, <1>7, <1>8, <1>9, <1>10, <1>11 DEF Next

-----------------------------------------------------------------------------
(* Every step of the file system preserves DiskInv.                          *)
LEMMA NextInv ==
    ASSUME Sane, HaveMinima, DiskInv, [Next]_vars
    PROVE  DiskInv'
<1>1. CASE UNCHANGED vars
  BY ZenonT(60), <1>1, StutterInv
<1>2. CASE do_format \/ filesys_init \/ Stop \/ filesys_done
  BY ZenonT(60), <1>2, FormatInv, RestartInv, StopInv
<1>3. CASE \E n \in Names : filesys_open(n) \/ filesys_remove(n) \/ \E size \in Sizes : filesys_create(n, size)
  BY ZenonT(60), <1>3, OpenFileInv, RemoveInv, CreateInv
<1>4. CASE AllocInode \/ AllocData \/ PutInode \/ Zeros \/ Look \/ Add \/ Undo
  BY ZenonT(60), <1>4, AllocInodeInv, AllocDataInv, PutInodeInv, ZerosInv, LookInv, AddInv, UndoInv
<1>5. CASE \E f \in files : file_close(f) \/ file_write(f)
  BY ZenonT(60), <1>5, CloseFileInv, WriteInv
<1>6. CASE ReleaseInode \/ ReleaseData \/ Erase
  BY ZenonT(60), <1>6, ReleaseInodeInv, ReleaseDataInv, EraseInv
<1> QED BY ZenonT(60), <1>1, <1>2, <1>3, <1>4, <1>5, <1>6 DEF Next

(* And, as long as malloc does not fail, the exactness of the free map and   *)
(* of the directory.                                                         *)
LEMMA NextExact ==
    ASSUME Sane, HaveMinima, ~MallocFails, DiskInv, AccountInv, NamesInv, [Next]_vars
    PROVE  AccountInv' /\ NamesInv'
<1>1. CASE UNCHANGED vars
  <2>1. UNCHANGED <<dmap, dinode, slot, up, free_map, open, op, leaked>>
    BY ZenonT(60), <1>1 DEF vars, disk, memory, ghosts
  <2>2. AccountInv'
    <3>1. /\ Kept /\ Taken' = Taken /\ Referenced' = Referenced /\ System' = System
      BY ZenonT(60), <2>1 DEF Kept, Taken, TakenInode, TakenData, Referenced, Reachable, System
    <3>2. Owned' = Owned /\ (\A s \in Opened : ~open[s].removed => s \in Named)'
      BY ZenonT(60), <3>1, SameUse, KeptOpen DEF Owned
    <3> QED BY ZenonT(60), <2>1, <3>1, <3>2 DEF AccountInv
  <2>3. NamesInv'
    BY ZenonT(60), <2>1 DEF NamesInv, NamesUnique, Entry
  <2> QED BY <2>2, <2>3
<1>2. CASE Next
  <2>1. AccountInv'
    <3>2. CASE do_format \/ filesys_init \/ Stop \/ filesys_done
      BY ZenonT(60), <3>2, StartsAccount, StopsAccount
    <3>3. CASE \E n \in Names : filesys_open(n) \/ filesys_remove(n) \/ \E size \in Sizes : filesys_create(n, size)
      BY ZenonT(60), <3>3, OpensAccount, CreateAccount
    <3>4. CASE AllocInode \/ AllocData \/ PutInode \/ Zeros \/ Look
      BY ZenonT(60), <3>4, AllocatesAccount, GoesOnAccount
    <3>5. CASE \E f \in files : file_close(f) \/ file_write(f)
      BY ZenonT(60), <3>5, CloseAccount, WriteAccount
    <3>6. CASE Add \/ Erase \/ Undo \/ ReleaseInode \/ ReleaseData
      BY ZenonT(60), <3>6, AddAccount, ReleasesAccount, EraseAccount
    <3> QED BY ZenonT(60), <1>2, <3>2, <3>3, <3>4, <3>5, <3>6 DEF Next
  <2>2. NamesInv'
    BY ZenonT(60), <1>2, LookNames, AddNames, OtherNames
  <2> QED BY <2>1, <2>2
<1> QED BY <1>1, <1>2

(* A blank disk, and the machine switched off.                               *)
LEMMA InitInv ==
    ASSUME Sane, Init
    PROVE  DiskInv /\ AccountInv /\ NamesInv
<1>1. /\ dmap = {} /\ dinode = [s \in Sectors |-> NoInode] /\ slot = [k \in Slots |-> Null]
      /\ up = FALSE /\ free_map = {} /\ open = [s \in Sectors |-> Null] /\ files = {} /\ op = Idle
      /\ stops = 0 /\ leaked = {} /\ written = {}
  BY ZenonT(60) DEF Init
<1>2. op \in Ops /\ op.do = "idle"
  BY <1>1, SectorFacts DEF Idle, Ops, Steps
<1>3. dinode \in [Sectors -> Inodes]
  <2>1. 0 \in Sectors
    BY DEF Sane, Sectors
  <2> QED BY <1>1, <2>1 DEF Inodes, NoInode
<1>4. slot \in [Slots -> Entries \cup {Null}] /\ open \in [Sectors -> Handles \cup {Null}]
      /\ Named = {} /\ Opened = {} /\ \A k \in Slots : slot[k] = Null
  BY ZenonT(60), <1>1 DEF Named, Opened
<1>5. Taken = {} /\ TakenInode = {} /\ Roots = {}
  BY ZenonT(60), <1>2, <1>4, TakenFacts DEF Taken, Roots
<1>6. TypeInv
  BY ZenonT(60), <1>1, <1>2, <1>3, <1>4, FS_EmptySet DEF TypeInv
<1>7. MapInv
  BY ZenonT(60), <1>1, <1>4, <1>5 DEF MapInv
<1>8. OpInv
  BY <1>1, <1>2, <1>5 DEF OpInv, Creating
<1>9. op.do # "erase" /\ op.do # "add" /\ op.do \notin {"zeros", "look", "add"}
  BY <1>2
<1>10. OpenInv /\ ZeroInv
  BY ZenonT(60), <1>1, <1>4, <1>9 DEF OpenInv, ZeroInv
<1>11. AccountInv /\ NamesInv
  BY ZenonT(60), <1>1, <1>4, <1>9 DEF AccountInv, NamesInv, NamesUnique
<1> QED BY ZenonT(60), <1>6, <1>7, <1>8, <1>10, <1>11 DEF DiskInv

-----------------------------------------------------------------------------
INSTANCE WellFoundedInduction

(* bitmap_scan, lookup and the search of dir_add have a first answer.        *)
LEMMA Minima == HaveMinima
<1> SUFFICES ASSUME NEW S, S \subseteq Nat, S # {} PROVE \E x \in S : \A y \in S : x <= y
  BY ZenonT(60) DEF HaveMinima
<1> DEFINE R == {p \in Nat \X Nat : p[1] < p[2]}
<1>1. OpToRel(<, Nat) = R
  BY DEF OpToRel
<1>2. IsWellFoundedOn(R, Nat)
  BY ZenonT(60), <1>1, NatLessThanWellFounded
<1>3. PICK x \in S : \A y \in S : ~ (<<y, x>> \in R)
  <2> HIDE DEF R
  <2> QED BY ZenonT(60), <1>2, WFMin
<1>4. ASSUME NEW y \in S PROVE x <= y
  <2>1. ~ (y < x)
    BY ZenonT(60), <1>3
  <2> QED BY <2>1
<1> QED BY ZenonT(60), <1>4

(* DiskInv holds between any two sector writes, whether malloc fails or not, *)
(* and after any number of stops: what the directory and the open files      *)
(* refer to is marked in the free map on disk and in memory and belongs to   *)
(* one inode only, and so do the sectors of the operation under way.         *)
THEOREM DiskIsConsistent ==
    ASSUME Sane
    PROVE  Spec => []DiskInv
<1>1. DiskInv /\ [Next]_vars => DiskInv'
  BY ZenonT(60), Minima, NextInv
<1>2. Init => DiskInv
  BY ZenonT(60), InitInv
<1> QED BY <1>1, <1>2, PTL DEF Spec

(* filesys_create marks before it names and filesys_remove erases before it  *)
(* releases: the directory on disk survives a stop at any point.             *)
THEOREM DiskAlwaysSurvivesStop ==
    ASSUME Sane
    PROVE  Spec => []DiskSurvivesStop
<1>1. DiskInv => DiskSurvivesStop
  <2> SUFFICES ASSUME DiskInv PROVE DiskSurvivesStop
    BY ZenonT(60)
  <2>1. \A k \in Slots : slot[k] # Null => slot[k].sector \in Named /\ slot[k].sector \in Roots
    BY ZenonT(60) DEF Named, Roots
  <2>2. \A k \in Slots : slot[k] # Null => Reachable(slot[k].sector) \subseteq dmap \ System
    BY ZenonT(60), <2>1 DEF DiskInv, MapInv
  <2>3. \A j, k \in Slots : (slot[j] # Null /\ slot[k] # Null /\ j # k)
                              => Reachable(slot[j].sector) \cap Reachable(slot[k].sector) = {}
    BY ZenonT(60), <2>1 DEF DiskInv, MapInv
  <2> QED BY ZenonT(60), <2>2, <2>3 DEF DiskSurvivesStop
<1> QED BY <1>1, DiskIsConsistent, PTL

(* inode_create zeroes the data before dir_add names the inode, and no other *)
(* file's writes reach it: an unwritten file reads as zeros.                 *)
THEOREM FreshFilesAreZero ==
    ASSUME Sane
    PROVE  Spec => []FreshFileIsZero
<1>1. DiskInv => FreshFileIsZero
  BY ZenonT(60) DEF DiskInv, ZeroInv, FreshFileIsZero, Named, Data
<1> QED BY <1>1, DiskIsConsistent, PTL

(* While malloc does not fail, the free map and the directory are exact at   *)
(* every step of every operation.                                            *)
THEOREM DiskIsExact ==
    ASSUME Sane, ~MallocFails
    PROVE  Spec => [](DiskInv /\ AccountInv /\ NamesInv)
<1>1. (DiskInv /\ AccountInv /\ NamesInv) /\ [Next]_vars => (DiskInv /\ AccountInv /\ NamesInv)'
  BY ZenonT(60), Minima, NextInv, NextExact
<1>2. Init => DiskInv /\ AccountInv /\ NamesInv
  BY ZenonT(60), InitInv
<1> QED BY <1>1, <1>2, PTL DEF Spec

(* Between operations a sector is marked exactly when a named file, a file   *)
(* that is open after its removal or the system has it, or it is lost.       *)
THEOREM SectorsAreAccounted ==
    ASSUME Sane, ~MallocFails
    PROVE  Spec => []SectorsAccounted
<1>1. DiskInv /\ AccountInv => SectorsAccounted
  <2> SUFFICES ASSUME DiskInv, AccountInv, up, op.do = "idle"
               PROVE  free_map = System \cup Referenced \cup leaked \cup
                        UNION {{s} \cup Run(open[s].start, open[s].len) : s \in {x \in Sectors : open[x] # Null}}
    BY ZenonT(60) DEF SectorsAccounted, At
  <2>1. free_map = System \cup InUse \cup leaked
    <3>1. Taken = {}
      BY ZenonT(60), TakenFacts DEF Taken
    <3> QED BY ZenonT(60), <3>1 DEF AccountInv, Owned
  <2>2. UNION {{s} \cup Run(open[s].start, open[s].len) : s \in {x \in Sectors : open[x] # Null}}
          = UNION {Reachable(s) : s \in Opened}
    <3>1. \A s \in Opened : Reachable(s) = {s} \cup Run(open[s].start, open[s].len)
      BY ZenonT(60) DEF DiskInv, OpenInv, Reachable
    <3> QED BY ZenonT(60), <3>1 DEF Opened
  <2>3. InUse = Referenced \cup UNION {Reachable(s) : s \in Opened}
    BY ZenonT(60), ReferencedIs DEF InUse, Roots
  <2> QED BY <2>1, <2>2, <2>3
<1> QED BY <1>1, DiskIsExact, PTL

(* dir_add writes a name only after lookup has gone through the directory    *)
(* without finding it: no two entries have one name.                         *)
THEOREM NamesAreUnique ==
    ASSUME Sane, ~MallocFails
    PROVE  Spec => []NamesUnique
<1>1. NamesInv => NamesUnique
  BY ZenonT(60) DEF NamesInv
<1> QED BY <1>1, DiskIsExact, PTL

(* dir_add takes a slot that holds nothing: while the file system runs, an   *)
(* entry changes only under dir_remove.                                      *)
THEOREM EntriesAreKept ==
    ASSUME Sane, ~MallocFails
    PROVE  Spec => AddKeepsEntries
<1>1. DiskInv /\ [Next]_vars => [EntriesKept]_vars
  <2> SUFFICES ASSUME DiskInv, Next, NEW k \in Slots, up, slot[k] # Null, slot'[k] # slot[k]
               PROVE  op.do = "erase"
    BY ZenonT(60) DEF EntriesKept
  <2>1. CASE Add
    <3>1. slot' = slot \/ slot' = [slot EXCEPT ![Min(Unused)] = [name |-> op.name, sector |-> op.sector]]
      BY ZenonT(60), <2>1 DEF Add, FreeSlot, MayFail
    <3>2. PICK j : j = Min(Unused)
      BY ZenonT(60)
    <3>3. j \in Slots => slot[j] = Null
      BY ZenonT(60), <3>2, Minima, FreeSlotIsFree
    <3>4. k # j => slot'[k] = slot[k]
      BY <3>1, <3>2 DEF DiskInv, TypeInv
    <3> QED BY ZenonT(60), <3>3, <3>4
  <2>2. CASE Erase
    BY ZenonT(60), <2>2 DEF Erase, At
  <2>3. CASE ~Add /\ ~Erase
    <3>1. slot' = slot
      <4>1. CASE filesys_init \/ Stop \/ filesys_done
        BY ZenonT(60), <4>1 DEF filesys_init, Stop, filesys_done, disk
      <4>2. CASE \E n \in Names : filesys_open(n) \/ filesys_remove(n) \/ \E size \in Sizes : filesys_create(n, size)
        BY ZenonT(60), <4>2 DEF filesys_open, filesys_remove, filesys_create, disk
      <4>3. CASE AllocInode \/ AllocData \/ PutInode \/ Zeros \/ Look
        BY ZenonT(60), <4>3 DEF AllocInode, AllocData, PutInode, Zeros, Look, disk
      <4>4. CASE Undo \/ ReleaseInode \/ ReleaseData
        BY ZenonT(60), <4>4 DEF Undo, ReleaseInode, ReleaseData
      <4>5. CASE \E f \in files : file_close(f) \/ file_write(f)
        BY ZenonT(60), <4>5 DEF file_close, file_write, disk
      <4>6. ~do_format
        BY ZenonT(60) DEF do_format
      <4> QED BY ZenonT(60), <2>3, <4>1, <4>2, <4>3, <4>4, <4>5, <4>6 DEF Next
    <3> QED BY ZenonT(60), <3>1
  <2> QED BY <2>1, <2>2, <2>3
<1> QED BY <1>1, DiskIsConsistent, PTL DEF Spec, AddKeepsEntries
=============================================================================
