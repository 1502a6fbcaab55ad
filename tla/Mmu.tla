--------------------------------- MODULE Mmu ---------------------------------
(***************************************************************************)
(* threads/mmu.c and threads/init.c:paging_init: four-level page tables in *)
(* pages of the kernel pool, built on demand, shared with base_pml4 for    *)
(* the kernel's addresses, and the processor's translation cache that the  *)
(* code must keep up to date.  The callers keep to the interface: a page   *)
(* that is mapped is not mapped again, a frame that is no longer mapped is *)
(* given back to the user pool, and the active table is not destroyed.     *)
(***************************************************************************)
EXTENDS Integers, Sequences, FiniteSets, FiniteSetsExt

CONSTANTS
    KernelPages,    \* pages of the kernel pool, for tables
    Frames,         \* frames of the user pool
    UserAddrs,      \* user pages, as their four table indexes
    KernelAddrs,    \* kernel pages
    Text,           \* those of KernelAddrs that hold kernel text
    Index,          \* indexes of a table
    MaxTables,      \* how many tables pml4_create makes at a time
    HighFrame,      \* the first frame at 4 GB
    Null

VARIABLES
    mem,            \* KernelPages -> Index -> entry: the tables
    kfree, ufree,   \* free pages of the two pools
    base_pml4,
    pml4s,          \* tables that pml4_create returned
    cr3, tlb,       \* the active table; cached translations [va, frame, w, d]
    panic,
    map             \* what was mapped: table -> user address -> frame

vars == <<mem, kfree, ufree, base_pml4, pml4s, cr3, tlb, panic, map>>

Zero == [p |-> FALSE, frame |-> 0, w |-> FALSE, a |-> FALSE, d |-> FALSE]
Entry(f, w) == [p |-> TRUE, frame |-> f, w |-> w, a |-> FALSE, d |-> FALSE]
ZeroTable == [i \in Index |-> Zero]
NoMap == [va \in UserAddrs |-> Null]

Init ==
    /\ mem = [k \in KernelPages |-> ZeroTable]
    /\ kfree = KernelPages /\ ufree = Frames
    /\ base_pml4 = Null /\ pml4s = {} /\ cr3 = Null /\ tlb = {} /\ panic = FALSE
    /\ map = [k \in KernelPages |-> NoMap]

-----------------------------------------------------------------------------
(* pml4e_walk, pdpe_walk and pgdir_walk: the page of the last table and the  *)
(* index in it, Null where a table is missing; with CREATE missing tables    *)
(* are allocated on the way.  palloc_get_page (PAL_ASSERT) never returns a   *)
(* null pointer: without a page the kernel stops (pt = Null and free = {}).  *)
Walk(t, va) ==
    LET step(page, lvl) == IF page = Null \/ ~mem[page][va[lvl]].p THEN Null ELSE mem[page][va[lvl]].frame
    IN  step(step(step(t, 1), 2), 3)

RECURSIVE WalkCreate(_, _, _, _, _)
WalkCreate(m, free, t, va, lvl) ==
    IF lvl = 4 THEN [mem |-> m, free |-> free, pt |-> t]
    ELSE IF m[t][va[lvl]].p THEN WalkCreate(m, free, m[t][va[lvl]].frame, va, lvl + 1)
    ELSE IF free = {} THEN [mem |-> m, free |-> free, pt |-> Null]
    ELSE LET page == Min(free)
         IN  WalkCreate([m EXCEPT ![page] = ZeroTable, ![t][va[lvl]] = Entry(page, TRUE)],
                        free \ {page}, page, va, lvl + 1)

Pte(t, va) == IF Walk(t, va) = Null THEN Zero ELSE mem[Walk(t, va)][va[4]]
Flush(t, va) == IF cr3 = t THEN {e \in tlb : e.va # va} ELSE tlb

(* paging_init: every kernel page, its text read-only.                       *)
RECURSIVE MapKernel(_, _)
MapKernel(s, addrs) ==
    IF addrs = {} THEN s
    ELSE LET va == CHOOSE x \in addrs : TRUE
             r == WalkCreate(s.mem, s.free, s.pml4, va, 1)
         IN  MapKernel([s EXCEPT !.mem = [r.mem EXCEPT ![r.pt][va[4]] = Entry(0, va \notin Text)],
                                 !.free = r.free], addrs \ {va})
paging_init ==
    /\ base_pml4 = Null
    /\ base_pml4' = Min(kfree)
    /\ LET s == MapKernel([mem |-> mem, free |-> kfree \ {Min(kfree)}, pml4 |-> Min(kfree)], KernelAddrs)
       IN  mem' = s.mem /\ kfree' = s.free
    /\ cr3' = base_pml4'
    /\ UNCHANGED <<ufree, pml4s, tlb, panic, map>>

Live == base_pml4 # Null /\ ~panic

(* Mutant: the new table starts as a copy of the active one.                 *)
pml4_create_active ==
    /\ Live /\ kfree # {} /\ Cardinality(pml4s) < MaxTables
    /\ mem' = [mem EXCEPT ![Min(kfree)] = mem[cr3]]
    /\ pml4s' = pml4s \cup {Min(kfree)} /\ kfree' = kfree \ {Min(kfree)}
    /\ UNCHANGED <<ufree, base_pml4, cr3, tlb, panic, map>>

pml4_create ==
    /\ Live /\ kfree # {} /\ Cardinality(pml4s) < MaxTables
    /\ mem' = [mem EXCEPT ![Min(kfree)] = mem[base_pml4]]
    /\ pml4s' = pml4s \cup {Min(kfree)} /\ kfree' = kfree \ {Min(kfree)}
    /\ UNCHANGED <<ufree, base_pml4, cr3, tlb, panic, map>>

pml4_set_page(t, va, f, rw) ==
    /\ Live /\ t \in pml4s /\ f \in ufree /\ ~Pte(t, va).p
    /\ LET r == WalkCreate(mem, kfree, t, va, 1) IN
       IF r.pt = Null
       THEN panic' = TRUE /\ UNCHANGED <<mem, kfree, ufree, map>>
       ELSE /\ mem' = [r.mem EXCEPT ![r.pt][va[4]] = Entry(f, rw)]
            /\ kfree' = r.free /\ ufree' = ufree \ {f}
            /\ map' = [map EXCEPT ![t][va] = f]
            /\ UNCHANGED panic
    /\ UNCHANGED <<base_pml4, pml4s, cr3, tlb>>

(* Mutant: the cached translation is left alone.                             *)
pml4_clear_page_cached(t, va) ==
    /\ Live /\ t \in pml4s /\ Pte(t, va).p
    /\ mem' = [mem EXCEPT ![Walk(t, va)][va[4]].p = FALSE]
    /\ ufree' = ufree \cup {Pte(t, va).frame} /\ map' = [map EXCEPT ![t][va] = Null]
    /\ UNCHANGED <<kfree, base_pml4, pml4s, cr3, panic, tlb>>

(* The caller gives the frame of a page it has cleared back.                 *)
pml4_clear_page(t, va) ==
    /\ Live /\ t \in pml4s /\ Pte(t, va).p
    /\ mem' = [mem EXCEPT ![Walk(t, va)][va[4]].p = FALSE]
    /\ tlb' = Flush(t, va)
    /\ ufree' = ufree \cup {Pte(t, va).frame} /\ map' = [map EXCEPT ![t][va] = Null]
    /\ UNCHANGED <<kfree, base_pml4, pml4s, cr3, panic>>

(* pml4_set_dirty and pml4_set_accessed.  ~(uint32_t) PTE_D is a 32-bit mask *)
(* that the 64-bit entry is reduced to: the frame loses what is above 4 GB.  *)
Masked(e) == [e EXCEPT !.frame = @ % HighFrame]

pml4_set_dirty(t, va, dirty) ==
    /\ Live /\ t \in pml4s /\ Walk(t, va) # Null
    /\ mem' = [mem EXCEPT ![Walk(t, va)][va[4]] = IF dirty THEN [@ EXCEPT !.d = TRUE]
                                                  ELSE Masked([@ EXCEPT !.d = FALSE])]
    /\ tlb' = Flush(t, va)
    /\ UNCHANGED <<kfree, ufree, base_pml4, pml4s, cr3, panic, map>>

pml4_set_accessed(t, va, accessed) ==
    /\ Live /\ t \in pml4s /\ Walk(t, va) # Null
    /\ mem' = [mem EXCEPT ![Walk(t, va)][va[4]] = IF accessed THEN [@ EXCEPT !.a = TRUE]
                                                  ELSE Masked([@ EXCEPT !.a = FALSE])]
    /\ tlb' = Flush(t, va)
    /\ UNCHANGED <<kfree, ufree, base_pml4, pml4s, cr3, panic, map>>

(* pml4_activate: loading cr3 empties the cache.                             *)
pml4_activate(t) ==
    /\ Live /\ t \in pml4s \cup {base_pml4} /\ t # cr3
    /\ cr3' = t /\ tlb' = {}
    /\ UNCHANGED <<mem, kfree, ufree, base_pml4, pml4s, panic, map>>

(* The tables below an entry, and the frames the last ones map.              *)
RECURSIVE Below(_, _)
Below(page, lvl) ==
    IF lvl = 4 THEN {page}
    ELSE {page} \cup UNION {Below(mem[page][i].frame, lvl + 1) : i \in {x \in Index : mem[page][x].p}}
Tables(t) == IF mem[t][0].p THEN Below(mem[t][0].frame, 2) ELSE {}
LastTables(t) == {Walk(t, <<0, i, j, 0>>) : i, j \in Index} \ {Null}
MappedFrames(t) ==
    UNION {{mem[pt][i].frame : i \in {x \in Index : mem[pt][x].p}} : pt \in LastTables(t)}

(* What a free page holds does not matter: palloc_get_page zeroes it.        *)
Released(pages) == [k \in KernelPages |-> IF k \in pages THEN ZeroTable ELSE mem[k]]

(* Mutant: the tables are freed and the frames they map are not.             *)
pml4_destroy_keeps(t) ==
    /\ Live /\ t \in pml4s /\ t # cr3
    /\ kfree' = kfree \cup Tables(t) \cup {t} /\ pml4s' = pml4s \ {t}
    /\ mem' = Released(Tables(t) \cup {t})
    /\ map' = [map EXCEPT ![t] = NoMap]
    /\ UNCHANGED <<base_pml4, cr3, tlb, panic, ufree>>

(* pml4_destroy: what entry 0 leads to, and every frame mapped there.        *)
pml4_destroy(t) ==
    /\ Live /\ t \in pml4s /\ t # cr3
    /\ kfree' = kfree \cup Tables(t) \cup {t} /\ pml4s' = pml4s \ {t}
    /\ ufree' = ufree \cup MappedFrames(t)
    /\ mem' = Released(Tables(t) \cup {t})
    /\ map' = [map EXCEPT ![t] = NoMap]
    /\ UNCHANGED <<base_pml4, cr3, tlb, panic>>

(* The processor: an access goes through the cache, or through the tables,   *)
(* which get their accessed and dirty bits then; a cached translation that   *)
(* is dirty is used without a look at the tables.                            *)
Access(va, write) ==
    LET e == Pte(cr3, va)
        hit == {x \in tlb : x.va = va}
    IN  /\ Live /\ cr3 \in pml4s
        /\ e.p /\ (write => e.w)
        /\ hit = {} \/ (write /\ \E x \in hit : ~x.d)
        /\ mem' = [mem EXCEPT ![Walk(cr3, va)][va[4]] = [@ EXCEPT !.a = TRUE, !.d = @ \/ write]]
        /\ tlb' = (tlb \ hit) \cup {[va |-> va, frame |-> e.frame, w |-> e.w, d |-> e.d \/ write]}
        /\ UNCHANGED <<kfree, ufree, base_pml4, pml4s, cr3, panic, map>>

Next ==
    \/ paging_init \/ pml4_create
    \/ \E t \in pml4s, va \in UserAddrs :
         \/ \E f \in Frames, rw \in BOOLEAN : pml4_set_page(t, va, f, rw)
         \/ pml4_clear_page(t, va)
         \/ \E b \in BOOLEAN : pml4_set_dirty(t, va, b) \/ pml4_set_accessed(t, va, b)
    \/ \E t \in pml4s \cup {base_pml4} : pml4_activate(t) \/ pml4_destroy(t)
    \/ \E va \in UserAddrs, write \in BOOLEAN : Access(va, write)

Spec == Init /\ [][Next]_vars

-----------------------------------------------------------------------------
(* The invlpg calls of mmu.c: a translation the processor has cached is the  *)
(* one in the active table, and one that lets writes pass unseen has its     *)
(* accessed and dirty bits set there.                                        *)
TranslationsCurrent ==
    \A x \in tlb : LET e == Pte(cr3, x.va) IN
        e.p /\ e.frame = x.frame /\ e.w = x.w /\ e.a /\ (x.d => e.d)

(* pml4_set_page, pml4_get_page and the sharing of the kernel's tables: each *)
(* table has exactly the user pages that were mapped in it and not cleared,  *)
(* whatever was done to the others, and all have the kernel's pages.         *)
(* mmu.c:153: "if PML4 (vaddr) >= 1, it's kernel space by define."           *)
MappingsPrivate ==
    (base_pml4 # Null) =>
    \A t \in pml4s \cup {base_pml4} :
        /\ \A va \in UserAddrs : map[t][va] = IF Pte(t, va).p THEN Pte(t, va).frame ELSE Null
        /\ \A va \in KernelAddrs : Pte(t, va) = Pte(base_pml4, va) /\ Pte(t, va).p

(* pml4e_walk and pml4_destroy: every page of the kernel pool is free or a   *)
(* table of exactly one owner, and every frame is free or mapped.            *)
TablePagesAccounted ==
    (base_pml4 # Null /\ ~panic) =>
        LET kernel == Below(base_pml4, 1)
            own == [t \in pml4s |-> Tables(t) \cup {t}]
        IN  /\ kfree = KernelPages \ (kernel \cup UNION {own[t] : t \in pml4s})
            /\ \A t, u \in pml4s : t # u => own[t] \cap own[u] = {}
            /\ ufree = Frames \ {map[t][va] : t \in pml4s, va \in UserAddrs}

(* mmu.c:188: pml4_set_page "Returns true if successful, false if memory     *)
(* allocation failed": the kernel does not stop for want of a page.          *)
(* The code does not keep it: README.md, "Disagreements".                    *)
FailureIsReported == ~panic
=============================================================================
