-------------------------------- MODULE Pools --------------------------------
(***************************************************************************)
(* threads/palloc.c at boot: resolve_area_info and populate_pools divide   *)
(* the BIOS memory map between the kernel pool and the user pool.  An      *)
(* entry is [start, size, type] in bytes; addresses are physical (ptov     *)
(* adds a constant).  One step is one pass of a loop.                      *)
(***************************************************************************)
EXTENDS Integers, Sequences, FiniteSets

CONSTANTS
    PGSIZE,
    KernelEnd,        \* _end
    Maps,             \* the memory maps the BIOS may report
    Limits,           \* values of user_page_limit
    Width             \* uint64_t has Width bits

USABLE == 1
ACPI_RECLAIMABLE == 2

VARIABLES
    map, user_page_limit,
    phase,            \* "claim" | "usable" | "done" | "panic"
    i,                \* loop variable
    state, rem, region_start, end, user_pages,
    pool, free_start

vars == <<map, user_page_limit, phase, i, state, rem, region_start, end, user_pages, pool, free_start>>

RoundUp(a) == ((a + PGSIZE - 1) \div PGSIZE) * PGSIZE
RoundDiv(a, d) == (a + d - 1) \div d
Claimed(e) == e.type \in {ACPI_RECLAIMABLE, USABLE}
NoPool == [base |-> 0, used |-> <<>>]

(* Mutant: only the whole pages of an entry are counted.                     *)
TotalSize_whole(m) ==
    LET sum[k \in 0 .. Len(m)] == IF k = 0 THEN 0 ELSE sum[k - 1] + (m[k].size \div PGSIZE) * PGSIZE
    IN  sum[Len(m)]

(* resolve_area_info adds up the sizes of all entries, whatever their type.  *)
TotalSize(m) ==
    LET sum[k \in 0 .. Len(m)] == IF k = 0 THEN 0 ELSE sum[k - 1] + m[k].size
    IN  sum[Len(m)]

(* Mutant: the limit is ignored.                                             *)
UserPages_half(total_pages) == total_pages \div 2

UserPages(total_pages) ==
    IF total_pages \div 2 > user_page_limit THEN user_page_limit ELSE total_pages \div 2

(* The bytes of a bitmap of n bits, header included.                         *)
bitmap_buf_size(n) == 1 + RoundDiv(n, 8)

Init ==
    /\ map \in Maps /\ user_page_limit \in Limits
    /\ LET total_pages == TotalSize(map) \div PGSIZE
       IN  /\ user_pages = UserPages(total_pages)
           /\ rem = total_pages - user_pages
    /\ phase = "claim" /\ i = 1 /\ state = "KERN_START"
    /\ region_start = 0 /\ end = 0
    /\ pool = [kernel |-> NoPool, user |-> NoPool]
    /\ free_start = RoundUp(KernelEnd)

(* init_pool: every page of the pool starts out unusable; the bitmap itself  *)
(* goes to bm_base.                                                          *)
NewPool(first, last) ==
    [base |-> first, used |-> [p \in 0 .. (last - first) \div PGSIZE - 1 |-> TRUE]]
BitmapPages(first, last) == RoundUp(bitmap_buf_size((last - first) \div PGSIZE))
init_pool(which, first, last) ==
    /\ pool' = [pool EXCEPT ![which] = NewPool(first, last)]
    /\ free_start' = free_start + BitmapPages(first, last)

(* The switch of populate_pools on an entry it claims.                       *)
Claim(e) ==
    LET size_in_pg == e.size \div PGSIZE
        from == IF state = "KERN_START" THEN e.start ELSE region_start
        cut  == e.start + rem * PGSIZE
    IN  \/ /\ state \in {"KERN_START", "KERN"} /\ rem > size_in_pg
           /\ rem' = rem - size_in_pg
           /\ state' = "KERN" /\ region_start' = from
           /\ UNCHANGED <<pool, free_start, phase>>
        \/ /\ state \in {"KERN_START", "KERN"} /\ rem <= size_in_pg
           /\ init_pool("kernel", from, cut)
           /\ IF rem = size_in_pg
              THEN rem' = user_pages /\ state' = "USER_START" /\ region_start' = from
              ELSE /\ region_start' = cut
                   /\ rem' = (user_pages - size_in_pg + rem) % 2 ^ Width
                   /\ state' = "USER"
           /\ UNCHANGED phase
        \/ /\ state = "USER_START"
           /\ region_start' = e.start /\ state' = "USER"
           /\ UNCHANGED <<pool, free_start, rem, phase>>
        \/ /\ state = "USER"
           /\ rem' = IF rem > size_in_pg THEN rem - size_in_pg ELSE rem
           /\ phase' = IF rem <= size_in_pg /\ rem # e.size THEN "panic" ELSE phase
           /\ UNCHANGED <<pool, free_start, state, region_start>>

claim_entry ==
    /\ phase = "claim" /\ i <= Len(map)
    /\ i' = i + 1
    /\ IF Claimed(map[i])
       THEN end' = map[i].start + map[i].size /\ Claim(map[i])
       ELSE UNCHANGED <<end, state, rem, region_start, pool, free_start, phase>>
    /\ UNCHANGED <<map, user_page_limit, user_pages>>

claim_user ==
    /\ phase = "claim" /\ i > Len(map)
    /\ init_pool("user", region_start, end)
    /\ phase' = IF pool.kernel = NoPool THEN "panic" ELSE "usable"
    /\ i' = 1
    /\ UNCHANGED <<map, user_page_limit, state, rem, region_start, end, user_pages>>

-----------------------------------------------------------------------------
PoolEnd(p) == p.base + Cardinality(DOMAIN p.used) * PGSIZE
page_from_pool(p, a) ==
    LET first == p.base \div PGSIZE
    IN  first <= a \div PGSIZE /\ a \div PGSIZE < first + Cardinality(DOMAIN p.used)

(* The page ranges an entry frees, pool by pool: the loop around "split".    *)
(* A range of a negative size fails the assertion of bitmap_set_multiple, an *)
(* address in no pool is NOT_REACHED; both are Panic.                        *)
Panic == [kernel |-> {-1}, user |-> {-1}]
Pages(p, from, to) == {k \in DOMAIN p.used : k >= (from \div PGSIZE) - (p.base \div PGSIZE)
                                           /\ k < (from \div PGSIZE) - (p.base \div PGSIZE) + (to - from) \div PGSIZE}

(* Mutant: the part of an entry behind the end of its first pool is skipped. *)
Freed_no_split(from, last) ==
    LET k == page_from_pool(pool.kernel, from)
        p == IF k THEN pool.kernel ELSE pool.user
        to == IF PoolEnd(p) < last THEN PoolEnd(p) ELSE last
    IN  IF last < from \/ ~(k \/ page_from_pool(pool.user, from)) THEN Panic
        ELSE [kernel |-> IF k THEN Pages(p, from, to) ELSE {}, user |-> IF k THEN {} ELSE Pages(p, from, to)]

Freed(from, last) ==
    LET k == page_from_pool(pool.kernel, from)
        p == IF k THEN pool.kernel ELSE pool.user
        split == PoolEnd(p) < last
        to == IF split THEN PoolEnd(p) ELSE last
    IN  IF last < from \/ ~(k \/ page_from_pool(pool.user, from)) THEN Panic
        ELSE IF ~k THEN (IF split THEN Panic ELSE [kernel |-> {}, user |-> Pages(p, from, to)])
        ELSE IF ~split THEN [kernel |-> Pages(p, from, to), user |-> {}]
        ELSE IF ~page_from_pool(pool.user, to) \/ PoolEnd(pool.user) < last THEN Panic
        ELSE [kernel |-> Pages(p, from, to), user |-> Pages(pool.user, to, last)]

usable_entry ==
    /\ phase = "usable" /\ i <= Len(map)
    /\ i' = i + 1
    /\ LET e == map[i]
           last == e.start + e.size
           from == RoundUp(IF e.start >= free_start THEN e.start ELSE free_start)
           f == Freed(from, last)
       IN  IF ~Claimed(e) \/ last < free_start THEN UNCHANGED <<pool, phase>>
           ELSE /\ pool' = [w \in {"kernel", "user"} |->
                             [pool[w] EXCEPT !.used = [k \in DOMAIN @ |-> @[k] /\ k \notin f[w]]]]
                /\ phase' = IF f = Panic THEN "panic" ELSE phase
    /\ UNCHANGED <<map, user_page_limit, state, rem, region_start, end, user_pages, free_start>>

populated ==
    /\ phase = "usable" /\ i > Len(map)
    /\ phase' = "done"
    /\ UNCHANGED <<map, user_page_limit, i, state, rem, region_start, end, user_pages, pool, free_start>>

Next == claim_entry \/ claim_user \/ usable_entry \/ populated

Spec == Init /\ [][Next]_vars

-----------------------------------------------------------------------------
FreePages(w) == {pool[w].base + k * PGSIZE : k \in {n \in DOMAIN pool[w].used : ~pool[w].used[n]}}
Within(a, e) == Claimed(e) /\ e.start <= a /\ a + PGSIZE <= e.start + e.size

(* After populate_pools a page is free exactly when it lies as a whole in an *)
(* entry the kernel claims and behind the kernel image and the two bitmaps,  *)
(* and it is free in one pool only.                                          *)
PoolsCoverMemory ==
    phase = "done" =>
        /\ FreePages("kernel") \cap FreePages("user") = {}
        /\ FreePages("kernel") \cup FreePages("user") =
             {a \in {PGSIZE * k : k \in free_start \div PGSIZE .. end \div PGSIZE} :
                a >= free_start /\ \E n \in 1 .. Len(map) : Within(a, map[n])}

(* No memory map of a machine makes populate_pools panic.                    *)
BootSurvivesMap == phase # "panic"

(* user_page_limit ("-ul"): no more pages than that are free in the user     *)
(* pool, however the entries are cut.                                        *)
UserPoolLimited == phase = "done" => Cardinality(FreePages("user")) <= user_page_limit

(* init.c:316 offers "-ul=COUNT", "Limit user memory to COUNT pages.": with  *)
(* any limit the pools get set up.                                           *)
(* The code does not keep it: README.md, "Disagreements".                    *)
LimitedBootSurvives == user_page_limit < TotalSize(map) \div PGSIZE => phase # "panic"

(* palloc.c:181 asserts of the last entry of the user pool "rem == size".    *)
(* The code does not keep it: README.md, "Disagreements".                    *)
RemAssertion ==
    (phase = "claim" /\ i <= Len(map) /\ state = "USER" /\ Claimed(map[i]) /\ rem <= map[i].size \div PGSIZE)
        => rem = map[i].size
=============================================================================
