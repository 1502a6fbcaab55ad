------------------------------- MODULE Filesys -------------------------------
(***************************************************************************)
(* filesys/: the free map, inodes, the root directory and open files, at   *)
(* the granularity of sector writes.  The kernel's one caller runs the     *)
(* operations one after another (there is no user-process layer in this    *)
(* tree and the file system does no locking of its own); between any two   *)
(* sector writes the machine may stop and be started again, and malloc may *)
(* fail where the code calls it.  The free map and the directory occupy    *)
(* one data sector each; a file's contents are the set of its sectors that *)
(* hold something other than zeros (Inode has the bytes).                  *)
(***************************************************************************)
EXTENDS Integers, FiniteSets, FiniteSetsExt

CONSTANTS
    Names,
    BadNames,       \* the names that are empty or too long
    Sizes,          \* file sizes, in sectors
    NSectors,       \* sectors of the disk
    DirSlots,       \* entries of the root directory
    MaxFiles,       \* files open at the same time
    MaxStops,       \* how often the machine may stop
    MallocFails,    \* whether malloc may return a null pointer
    Null

FREE_MAP_SECTOR == 0
ROOT_DIR_SECTOR == 1
MapData == 2
DirData == 3
Sectors == 0 .. NSectors - 1
Slots == 1 .. DirSlots

VARIABLES
    \* on disk
    dmap,          \* sectors the free map file marks as used
    dinode,        \* sector -> [start, len] of the inode stored there
    slot,          \* directory entries: [name, sector], or Null when not in use
    dirty,         \* data sectors that hold something other than zeros
    \* in memory
    up,            \* the file system is running
    free_map,      \* sectors in use
    open,          \* open_inodes: sector -> [cnt, removed, start, len], or Null
    files,         \* open files: [id, sector]
    op,            \* the operation under way
    \* for the properties
    stops, leaked, written

disk == <<dmap, dinode, slot, dirty>>
memory == <<up, free_map, open, files>>
ghosts == <<stops, leaked, written>>
vars == <<disk, memory, op, ghosts>>

NoInode == [start |-> 0, len |-> 0]
Idle == [do |-> "idle", name |-> Null, size |-> 0, sector |-> 0, start |-> 0, k |-> 0]
Run(sec, n) == sec .. sec + n - 1
MayFail == MallocFails

Init ==
    /\ dmap = {} /\ dinode = [s \in Sectors |-> NoInode]
    /\ slot = [k \in Slots |-> Null] /\ dirty = Sectors
    /\ up = FALSE /\ free_map = {} /\ open = [s \in Sectors |-> Null] /\ files = {}
    /\ op = Idle
    /\ stops = 0 /\ leaked = {} /\ written = {}

At(step) == up /\ op.do = step
Do(step) == op' = [op EXCEPT !.do = step]
Finish == op' = Idle

-----------------------------------------------------------------------------
(* filesys_init with FORMAT: free_map_init, then do_format: the free map     *)
(* file, the root directory, every entry zero.                               *)
do_format ==
    /\ ~up /\ dmap = {}
    /\ LET m == {FREE_MAP_SECTOR, ROOT_DIR_SECTOR, MapData, DirData} IN
         /\ dmap' = m /\ free_map' = m
         /\ dirty' = dirty \ {DirData}
    /\ dinode' = [dinode EXCEPT ![FREE_MAP_SECTOR] = [start |-> MapData, len |-> 1],
                                ![ROOT_DIR_SECTOR] = [start |-> DirData, len |-> 1]]
    /\ slot' = [k \in Slots |-> Null]
    /\ up' = TRUE
    /\ UNCHANGED <<open, files, op, ghosts>>

(* filesys_init without FORMAT: free_map_open reads the map from its file.   *)
filesys_init ==
    /\ ~up /\ dmap # {}
    /\ free_map' = dmap
    /\ up' = TRUE
    /\ UNCHANGED <<disk, open, files, op, ghosts>>

(* The machine stops: memory is gone, the disk is as it is.  What an         *)
(* unfinished operation had taken from the map stays taken.                  *)
Reachable(s) == {s} \cup Run(dinode[s].start, dinode[s].len)
Referenced == UNION {Reachable(slot[k].sector) : k \in {n \in Slots : slot[n] # Null}}
System == {FREE_MAP_SECTOR, ROOT_DIR_SECTOR, MapData, DirData}

Stop ==
    /\ up /\ stops < MaxStops
    /\ stops' = stops + 1
    /\ up' = FALSE /\ free_map' = {} /\ open' = [s \in Sectors |-> Null] /\ files' = {}
    /\ op' = Idle
    /\ leaked' = dmap \ (Referenced \cup System)
    /\ UNCHANGED <<disk, written>>

-----------------------------------------------------------------------------
(* free_map_allocate: the first run of cnt free sectors; the map is written  *)
(* to its file, and when that finds no memory the sectors are put back.      *)
FirstRun(cnt) ==
    LET runs == {s \in Sectors : \A n \in Run(s, cnt) : n \in Sectors \ free_map}
    IN  IF runs = {} THEN Null ELSE Min(runs)
free_map_allocate(cnt, got, failed) ==
    \/ /\ FirstRun(cnt) # Null
       /\ free_map' = free_map \cup Run(FirstRun(cnt), cnt)
       /\ dmap' = free_map'
       /\ got
    \/ /\ FirstRun(cnt) = Null \/ MayFail
       /\ failed
       /\ UNCHANGED <<free_map, dmap>>

(* free_map_release: the write to the file may fail; nobody looks.           *)
free_map_release(sectors) ==
    /\ free_map' = free_map \ sectors
    /\ dmap' \in {free_map'} \cup (IF MayFail THEN {dmap} ELSE {})

(* inode_open, on an inode that is open already or read from the disk, and   *)
(* inode_close without what it releases.                                     *)
inode_open(s) ==
    [open EXCEPT ![s] = IF open[s] = Null
                        THEN [cnt |-> 1, removed |-> FALSE, start |-> dinode[s].start, len |-> dinode[s].len]
                        ELSE [open[s] EXCEPT !.cnt = open[s].cnt + 1]]
inode_close(s) ==
    [open EXCEPT ![s] = IF open[s].cnt = 1 THEN Null ELSE [open[s] EXCEPT !.cnt = open[s].cnt - 1]]

(* lookup reads entry after entry until it finds the name; a read without    *)
(* memory ends it early.  Found is the set of answers it may give.           *)
Entry(name) == {k \in Slots : slot[k] # Null /\ slot[k].name = name}
(* Mutant: the search misses the first entry.                                *)
lookup_late(name) == IF Entry(name) \ {1} = {} THEN {Null} ELSE {Min(Entry(name) \ {1})}

lookup(name) ==
    (IF Entry(name) = {} THEN {Null} ELSE {Min(Entry(name))}) \cup (IF MayFail THEN {Null} ELSE {})

(* The search of dir_add for a free slot: DirSlots + 1 is end of file.       *)
Unused == {k \in Slots : slot[k] = Null} \cup {DirSlots + 1}
FreeSlot == {Min(Unused)} \cup (IF MayFail THEN 1 .. Min(Unused) ELSE {})

-----------------------------------------------------------------------------
(* filesys_create                                                            *)
filesys_create(name, size) ==
    /\ At("idle")
    /\ \/ op' = [Idle EXCEPT !.do = "alloc_inode", !.name = name, !.size = size]
       \/ MayFail /\ UNCHANGED op                             \* dir_open_root
    /\ UNCHANGED <<disk, memory, ghosts>>

AllocInode ==
    /\ At("alloc_inode")
    /\ free_map_allocate(1, op' = [op EXCEPT !.do = "alloc_data", !.sector = FirstRun(1)], Finish)
    /\ UNCHANGED <<dinode, slot, dirty, up, open, files, ghosts>>

(* inode_create: memory for the inode, its data sectors, the inode, zeros.   *)
AllocData ==
    /\ At("alloc_data")
    /\ \/ free_map_allocate(op.size, op' = [op EXCEPT !.do = "put_inode", !.start = FirstRun(op.size)],
                            Do("undo"))
       \/ MayFail /\ Do("undo") /\ UNCHANGED <<free_map, dmap>>
    /\ UNCHANGED <<dinode, slot, dirty, up, open, files, ghosts>>

PutInode ==
    /\ At("put_inode")
    /\ dinode' = [dinode EXCEPT ![op.sector] = [start |-> op.start, len |-> op.size]]
    /\ written' = written \ {op.sector}
    /\ Do("zeros")
    /\ UNCHANGED <<dmap, slot, dirty, memory, stops, leaked>>

(* Mutant: the last data sector is not zeroed.                               *)
Zeros_short ==
    /\ At("zeros")
    /\ IF op.k + 1 >= op.size
       THEN Do("look") /\ UNCHANGED dirty
       ELSE op' = [op EXCEPT !.k = @ + 1] /\ dirty' = dirty \ {op.start + op.k}
    /\ UNCHANGED <<dmap, dinode, slot, memory, ghosts>>

Zeros ==
    /\ At("zeros")
    /\ IF op.k = op.size
       THEN Do("look") /\ UNCHANGED dirty
       ELSE op' = [op EXCEPT !.k = @ + 1] /\ dirty' = dirty \ {op.start + op.k}
    /\ UNCHANGED <<dmap, dinode, slot, memory, ghosts>>

(* Mutant: an entry of the same name is replaced.                            *)
Look_replaces ==
    /\ At("look")
    /\ slot' = [k \in Slots |-> IF k \in Entry(op.name) THEN Null ELSE slot[k]]
    /\ Do(IF op.name \notin BadNames THEN "add" ELSE "undo")
    /\ UNCHANGED <<dmap, dinode, dirty, memory, ghosts>>

(* dir_add: a valid name, no entry of that name, a free slot, and the slot   *)
(* is written unless the directory is full or the write finds no memory.     *)
Look ==
    /\ At("look")
    /\ \E found \in lookup(op.name) :
         Do(IF found = Null /\ op.name \notin BadNames THEN "add" ELSE "undo")
    /\ UNCHANGED <<disk, memory, ghosts>>

Add ==
    /\ At("add")
    /\ \E k \in FreeSlot :
         \/ /\ k \in Slots
            /\ slot' = [slot EXCEPT ![k] = [name |-> op.name, sector |-> op.sector]]
            /\ Finish
         \/ (k \notin Slots \/ MayFail) /\ Do("undo") /\ UNCHANGED slot
    /\ UNCHANGED <<dmap, dinode, dirty, memory, ghosts>>

(* A failed create releases the inode's sector and nothing else: data        *)
(* sectors that inode_create had allocated stay in the map.                  *)
Undo ==
    /\ At("undo")
    /\ free_map_release({op.sector})
    /\ leaked' = leaked \cup (IF op.start # 0 THEN Run(op.start, op.size) ELSE {})
    /\ Finish
    /\ UNCHANGED <<dinode, slot, dirty, up, open, files, stops, written>>

-----------------------------------------------------------------------------
(* filesys_open: lookup, inode_open, file_open; on failure nothing remains.  *)
filesys_open(name) ==
    /\ At("idle") /\ Cardinality(files) < MaxFiles
    /\ \E k \in lookup(name) :
         /\ k # Null
         /\ open' = inode_open(slot[k].sector)
         /\ files' = files \cup {[id |-> Min(1 .. MaxFiles \ {f.id : f \in files}), sector |-> slot[k].sector]}
    /\ UNCHANGED <<disk, up, free_map, op, ghosts>>

(* Mutant: a removed inode's sectors go with the first close.                *)
file_close_eager(f) ==
    /\ At("idle") /\ f \in files
    /\ files' = files \ {f}
    /\ open' = inode_close(f.sector)
    /\ IF open[f.sector].removed
       THEN op' = [Idle EXCEPT !.do = "release_inode", !.sector = f.sector,
                               !.start = open[f.sector].start, !.size = open[f.sector].len]
       ELSE UNCHANGED op
    /\ UNCHANGED <<disk, up, free_map, ghosts>>

(* file_close and inode_close: the last closer of a removed inode releases   *)
(* its sectors.                                                              *)
file_close(f) ==
    /\ At("idle") /\ f \in files
    /\ files' = files \ {f}
    /\ open' = inode_close(f.sector)
    /\ IF open[f.sector].removed /\ open[f.sector].cnt = 1
       THEN op' = [Idle EXCEPT !.do = "release_inode", !.sector = f.sector,
                               !.start = open[f.sector].start, !.size = open[f.sector].len]
       ELSE UNCHANGED op
    /\ UNCHANGED <<disk, up, free_map, ghosts>>

ReleaseInode ==
    /\ At("release_inode")
    /\ free_map_release({op.sector})
    /\ written' = written \ {op.sector}
    /\ Do("release_data")
    /\ UNCHANGED <<dinode, slot, dirty, up, open, files, stops, leaked>>

ReleaseData ==
    /\ At("release_data")
    /\ free_map_release(Run(op.start, op.size))
    /\ Finish
    /\ UNCHANGED <<dinode, slot, dirty, up, open, files, ghosts>>

(* inode_write_at puts data into sectors of an open file.                    *)
file_write(f) ==
    /\ At("idle") /\ f \in files
    /\ \E s \in Run(open[f.sector].start, open[f.sector].len) : dirty' = dirty \cup {s}
    /\ written' = written \cup {f.sector}
    /\ UNCHANGED <<dmap, dinode, slot, memory, op, stops, leaked>>

(* filesys_remove: dir_remove finds the entry, opens the inode, erases the   *)
(* entry, marks the inode and closes it.                                     *)
filesys_remove(name) ==
    /\ At("idle")
    /\ \E k \in lookup(name) :
         /\ k # Null
         /\ open' = inode_open(slot[k].sector)
         /\ op' = [Idle EXCEPT !.do = "erase", !.k = k, !.sector = slot[k].sector]
    /\ UNCHANGED <<disk, up, free_map, files, ghosts>>

(* Mutant: the sectors are released before the entry is erased.              *)
Erase_last ==
    LET i == open[op.sector] IN
    /\ At("erase")
    /\ open' = inode_close(op.sector)
    /\ slot' = slot
    /\ op' = [op EXCEPT !.do = "release_inode", !.start = i.start, !.size = i.len]
    /\ UNCHANGED <<dmap, dinode, dirty, up, free_map, files, ghosts>>

Erase ==
    LET i == open[op.sector] IN
    /\ At("erase")
    /\ \/ /\ slot' = [slot EXCEPT ![op.k] = Null]
          /\ IF i.cnt = 1
             THEN /\ open' = inode_close(op.sector)
                  /\ op' = [op EXCEPT !.do = "release_inode", !.start = i.start, !.size = i.len]
             ELSE /\ open' = [open EXCEPT ![op.sector] = [i EXCEPT !.cnt = i.cnt - 1, !.removed = TRUE]]
                  /\ Finish
       \/ MayFail /\ open' = inode_close(op.sector) /\ Finish /\ UNCHANGED slot
    /\ UNCHANGED <<dmap, dinode, dirty, up, free_map, files, ghosts>>

(* filesys_done: free_map_close closes the free map file, and the machine is *)
(* switched off; files that are still open are not closed.                   *)
filesys_done ==
    /\ At("idle")
    /\ up' = FALSE /\ open' = [s \in Sectors |-> Null] /\ files' = {}
    /\ leaked' = dmap \ (Referenced \cup System)
    /\ UNCHANGED <<disk, free_map, op, stops, written>>

Next ==
    \/ do_format \/ filesys_init \/ Stop \/ filesys_done
    \/ \E n \in Names : filesys_open(n) \/ filesys_remove(n) \/ \E size \in Sizes : filesys_create(n, size)
    \/ AllocInode \/ AllocData \/ PutInode \/ Zeros \/ Look \/ Add \/ Undo
    \/ \E f \in files : file_close(f) \/ file_write(f)
    \/ ReleaseInode \/ ReleaseData \/ Erase

Spec == Init /\ [][Next]_vars

-----------------------------------------------------------------------------
(* The order of the sector writes in filesys_create and filesys_remove: at   *)
(* every moment, and so after every stop, what a directory entry on disk     *)
(* refers to is marked in the free map on disk, entries share no sector, and *)
(* none reaches into the free map or the directory.                          *)
DiskSurvivesStop ==
    LET live == {k \in Slots : slot[k] # Null} IN
    /\ \A k \in live : Reachable(slot[k].sector) \subseteq dmap \ System
    /\ \A j, k \in live : j # k => Reachable(slot[j].sector) \cap Reachable(slot[k].sector) = {}

(* inode_create zeroes before dir_add names: a file nobody has written since *)
(* its creation reads as zeros, also after a stop.                           *)
FreshFileIsZero ==
    \A k \in Slots : (slot[k] # Null /\ slot[k].sector \notin written)
        => Run(dinode[slot[k].sector].start, dinode[slot[k].sector].len) \cap dirty = {}

(* The free map between operations: a sector is in use exactly when a named  *)
(* file, a removed file that is still open or the file system itself has it, *)
(* apart from the data of creates that failed in dir_add and of operations   *)
(* cut short by a stop; open files keep theirs after their removal.          *)
SectorsAccounted ==
    At("idle") =>
        free_map = System \cup Referenced \cup leaked \cup
                   UNION {{s} \cup Run(open[s].start, open[s].len) : s \in {x \in Sectors : open[x] # Null}}

(* filesys.c:42: filesys_create "Fails if a file named NAME already exists"; *)
(* dir_add never gives two entries one name.                                 *)
NamesUnique ==
    \A j, k \in Slots : (slot[j] # Null /\ slot[k] # Null /\ slot[j].name = slot[k].name) => j = k

(* dir_add writes a slot that was not in use: an entry leaves the directory  *)
(* only through dir_remove.  directory.c:147 rests this on "inode_read_at()  *)
(* will only return a short read at end of file".                            *)
EntriesKept ==
    \A k \in Slots : (up /\ slot[k] # Null /\ slot'[k] # slot[k]) => op.do = "erase"
AddKeepsEntries == [][EntriesKept]_vars

(* free-map.c:57: free_map_close "Writes the free map to disk and closes the *)
(* free map file."                                                           *)
(* The code does not keep it: README.md, "Disagreements".                    *)
MapWrittenAtClose == (~up /\ free_map # {}) => dmap = free_map
=============================================================================
