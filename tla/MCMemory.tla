------------------------------ MODULE MCMemory -------------------------------
(***************************************************************************)
(* The memory management on small instances.  Allocators, pool set-up and  *)
(* page tables are checked one at a time: unit says which, and x1, x2, ... *)
(* are that unit's variables, renamed by the INSTANCE.  The properties     *)
(* below are those of the modules, joined per unit.                        *)
(***************************************************************************)
EXTENDS Integers, Sequences, TLC

CONSTANTS Threads, NoThread, Null, BITMAP_ERROR, Off

VARIABLES unit, x1, x2, x3, x4, x5, x6, x7, x8, x9, x10, x11

vars == <<unit, x1, x2, x3, x4, x5, x6, x7, x8, x9, x10, x11>>
From8 == <<x8, x9, x10, x11>>
From9 == <<x9, x10, x11>>
From10 == <<x10, x11>>
Off10 == x10 = Off /\ x11 = Off
Off9 == x9 = Off /\ Off10
Off8 == x8 = Off /\ Off9

-----------------------------------------------------------------------------
(* Two threads, a kernel pool of three pages and a user pool of one.       *)
Pages == INSTANCE Palloc WITH
    KernelPages <- 3, UserPages <- 1, MaxCnt <- 2, MaxHeld <- 2,
    used <- x1, holder <- x2, content <- x3, pc <- x4, req <- x5, held <- x6, halted <- x7

(* Two threads and two pages of 16 units, 12 of them taken by the header   *)
(* of an arena, so that blocks are of 2 units; sizes are 6-bit numbers.    *)
Blocks == INSTANCE Malloc WITH
    NPages <- 2, PGSIZE <- 16, ArenaSize <- 12, MinBlock <- 2, SizeBits <- 6,
    MallocSizes <- {1, 5}, CallocPairs <- {<<2, 2>>}, ReallocSizes <- {2, 5}, MaxHeld <- 2,
    used <- x1, arena <- x2, free_list <- x3, holder <- x4, data <- x5, held <- x6, pc <- x7, op <- x8

(* Memory maps with the layout of a PC: base memory up to the extended     *)
(* BIOS data area, which begins in the middle of a page, the ROM hole,     *)
(* extended memory, and one or two further regions of any type above it.   *)
Entry(s, n, t) == [start |-> s, size |-> n, type |-> t]
Low == <<Entry(0, 11, 1), Entry(11, 1, 2)>>
High(n, g, k, t) == <<Entry(16, 4 * n, 1), Entry(16 + 4 * (n + g), 4 * k, t)>>
Top(n, g, k, u) == IF u = 0 THEN <<>> ELSE <<Entry(16 + 4 * (n + g + k), 4, u)>>
Map == INSTANCE Pools WITH
    PGSIZE <- 4, KernelEnd <- 18, Width <- 8, Limits <- {4, 100},
    Maps <- {Low \o High(n, g, k, t) \o Top(n, g, k, u) :
                 n \in 5 .. 9, g \in 0 .. 1, k \in 1 .. 2, t \in 1 .. 3, u \in 0 .. 3},
    map <- x1, user_page_limit <- x2, phase <- x3, i <- x4, state <- x5, rem <- x6, region_start <- x7,
    end <- x8, user_pages <- x9, pool <- x10, free_start <- x11

(* Ten pages for page tables, two frames and two user pages under different *)
(* directories; the kernel's pages have a table of their own under the      *)
(* second top entry.                                                        *)
Tables == INSTANCE Mmu WITH
    KernelPages <- 1 .. 10, Frames <- {21, 22}, UserAddrs <- {<<0, 0, 0, 0>>, <<0, 1, 0, 0>>},
    KernelAddrs <- {<<1, 0, 1, 0>>, <<1, 0, 1, 1>>}, Text <- {<<1, 0, 1, 0>>},
    Index <- {0, 1}, MaxTables <- 2, HighFrame <- 100,
    mem <- x1, kfree <- x2, ufree <- x3, base_pml4 <- x4, pml4s <- x5, cr3 <- x6, tlb <- x7, panic <- x8, map <- x9

-----------------------------------------------------------------------------
Init ==
    \/ unit = "palloc" /\ Pages!Init /\ Off8
    \/ unit = "malloc" /\ Blocks!Init /\ Off9
    \/ unit = "pools" /\ Map!Init
    \/ unit = "mmu" /\ Tables!Init /\ Off10

UnitStep ==
    \/ unit = "palloc" /\ Pages!Next /\ UNCHANGED From8
    \/ unit = "malloc" /\ Blocks!Next /\ UNCHANGED From9
    \/ unit = "pools" /\ Map!Next
    \/ unit = "mmu" /\ Tables!Next /\ UNCHANGED From10

Next == UnitStep /\ UNCHANGED unit

Spec == Init /\ [][Next]_vars

(* Threads are interchangeable.                                            *)
Symmetry == Permutations(Threads)

-----------------------------------------------------------------------------
(* palloc_get_multiple never gives a page to two callers and                 *)
(* palloc_free_multiple gives back every page; zeroing and poisoning, which  *)
(* palloc.c does outside the lock, never touch a page somebody else owns.    *)
PagesHaveOneOwner == unit = "palloc" => Pages!PagesOwnedOnce /\ Pages!OwnerSeesOwnData

(* Between malloc, calloc, realloc and free of several threads: free lists   *)
(* and counters of arenas account for every block of every page, blocks in   *)
(* use do not overlap, hold the request, for sizes that do not wrap, and     *)
(* keep what was written to them.                                            *)
BlocksAreSound ==
    unit = "malloc" =>
        Blocks!ArenasAddUp /\ Blocks!BlocksDisjoint /\ Blocks!BlockHoldsRequest /\ Blocks!DataKept

(* populate_pools gets through every such map without a failed assertion,    *)
(* frees exactly the whole pages behind the kernel that the map offers, each *)
(* in one pool, and -ul limits the user pool.                                *)
PoolsMatchMap == unit = "pools" => Map!PoolsCoverMemory /\ Map!BootSurvivesMap /\ Map!UserPoolLimited

(* Whatever maps, clears, activates and destroys tables: what the processor  *)
(* has cached agrees with the active table, a change shows in one table      *)
(* only, and every page is free or in exactly one table or mapping.          *)
TablesAreSound ==
    unit = "mmu" => Tables!TranslationsCurrent /\ Tables!MappingsPrivate /\ Tables!TablePagesAccounted
=============================================================================
