------------------------------- MODULE Malloc -------------------------------
(***************************************************************************)
(* threads/malloc.c: blocks of powers of two carved out of one-page        *)
(* arenas, a free list and a lock per size, and big blocks of whole pages. *)
(* The page allocator is one step (Palloc has the rest).  Addresses are    *)
(* byte numbers, size_t has SizeBits bits.  A block's data is the thread   *)
(* that filled it and for how many bytes it is still there.                *)
(***************************************************************************)
EXTENDS Integers, Sequences, FiniteSets, SequencesExt

CONSTANTS
    Threads, NoThread,
    NPages,          \* pages of the kernel pool
    PGSIZE, ArenaSize, MinBlock, SizeBits,
    MallocSizes, CallocPairs, ReallocSizes,    \* what callers ask for
    MaxHeld,         \* how many blocks a thread keeps
    Null

VARIABLES
    used,          \* pages in use
    arena,         \* page -> [desc, free_cnt]; desc is 0 for a big block
    free_list,     \* block size -> addresses
    holder,        \* block size -> holder of the descriptor's lock
    data,          \* address -> <<who, bytes>>
    held,          \* thread -> its blocks [addr, want, must]
    pc, op

vars == <<used, arena, free_list, holder, data, held, pc, op>>

(* malloc_init                                                               *)
Descs == {d \in 1 .. PGSIZE \div 2 - 1 : \E k \in 0 .. SizeBits : d = MinBlock * 2 ^ k}
blocks_per_arena(d) == (PGSIZE - ArenaSize) \div d

NoArena == [desc |-> 0, free_cnt |-> 0]
NoOp == [size |-> 0, want |-> 0, old |-> Null, addr |-> Null]
AllPages == 0 .. NPages - 1

SmallerOf(x, y) == IF x < y THEN x ELSE y
DescFor(size) == CHOOSE d \in Descs : d >= size /\ \A e \in Descs : e >= size => d <= e
IsBig(size) == \A d \in Descs : d < size

arena_to_block(p, d, idx) == p * PGSIZE + ArenaSize + idx * d
block_to_arena(a) == a \div PGSIZE
Blocks(p, d) == [k \in 1 .. blocks_per_arena(d) |-> arena_to_block(p, d, k - 1)]
block_size(a) ==
    LET r == arena[block_to_arena(a)]
    IN  IF r.desc # 0 THEN r.desc ELSE PGSIZE * r.free_cnt - (a % PGSIZE)

Init ==
    /\ used = {} /\ arena = [p \in AllPages |-> NoArena]
    /\ free_list = [d \in Descs |-> <<>>] /\ holder = [d \in Descs |-> NoThread]
    /\ data = [a \in UNION {Range(Blocks(p, MinBlock)) : p \in AllPages} |-> <<Null, 0>>]
    /\ held = [t \in Threads |-> {}]
    /\ pc = [t \in Threads |-> "run"] /\ op = [t \in Threads |-> NoOp]

(* Mutant: only the first page of the run is looked at.                      *)
Runs_first(cnt) == {p \in AllPages : p \notin used /\ p + cnt <= NPages}

(* palloc_get_multiple: the first run of cnt free pages.                     *)
Runs(cnt) == {p \in AllPages : \A k \in p .. p + cnt - 1 : k \in AllPages \ used}
FirstRun(cnt) == CHOOSE p \in Runs(cnt) : \A q \in Runs(cnt) : p <= q

At(t, label) == pc[t] = label
GoTo(t, label) == pc' = [pc EXCEPT ![t] = label]

(* The caller has its block and fills it, or learns that there is none.  An  *)
(* old block given to realloc is copied and then freed.                      *)
Got(t, a) ==
    LET o == op[t] IN
    IF o.old = Null
    THEN /\ held' = [held EXCEPT ![t] = @ \cup {[addr |-> a, want |-> o.want, must |-> o.size]}]
         /\ data' = [data EXCEPT ![a] = <<t, o.size>>]
         /\ op' = [op EXCEPT ![t] = NoOp] /\ GoTo(t, "run")
    ELSE /\ op' = [op EXCEPT ![t].addr = a] /\ GoTo(t, "copy")
         /\ UNCHANGED <<held, data>>
NoBlock(t) ==
    /\ op' = [op EXCEPT ![t] = NoOp] /\ GoTo(t, "run")

-----------------------------------------------------------------------------
(* malloc, calloc and realloc begin.                                         *)
Start(t, o) ==
    /\ op' = [op EXCEPT ![t] = o]
    /\ GoTo(t, IF o.size = 0 THEN "run" ELSE IF IsBig(o.size) THEN "big" ELSE "lock")
    /\ UNCHANGED <<used, arena, free_list, holder, data>>

malloc(t, size) ==
    /\ At(t, "run") /\ Cardinality(held[t]) < MaxHeld
    /\ Start(t, [NoOp EXCEPT !.size = size, !.want = size])
    /\ UNCHANGED held

(* calloc: the product, cut to a size_t, and the test for overflow.          *)
calloc(t, a, b) ==
    LET size == (a * b) % 2 ^ SizeBits IN
    /\ At(t, "run") /\ Cardinality(held[t]) < MaxHeld
    /\ ~(size < a \/ size < b)
    /\ Start(t, [NoOp EXCEPT !.size = size, !.want = a * b])
    /\ UNCHANGED held

realloc(t, h, new_size) ==
    /\ At(t, "run") /\ h \in held[t] /\ new_size # 0
    /\ Start(t, [NoOp EXCEPT !.size = new_size, !.want = new_size, !.old = h])
    /\ UNCHANGED held

(* Mutant: the arena at the start of the first page is forgotten.            *)
PageCnt_bare(size) == (size + PGSIZE - 1) \div PGSIZE
PageCnt(size) == (((size + ArenaSize) % 2 ^ SizeBits) + PGSIZE - 1) \div PGSIZE

(* A block too big for any descriptor.                                       *)
BigBlock(t) ==
    LET page_cnt == PageCnt(op[t].size)
        p == FirstRun(page_cnt)
    IN  /\ At(t, "big")
        /\ \/ /\ Runs(page_cnt) # {}
              /\ used' = used \cup p .. p + page_cnt - 1
              /\ arena' = [arena EXCEPT ![p] = [desc |-> 0, free_cnt |-> page_cnt]]
              /\ Got(t, p * PGSIZE + ArenaSize)
           \/ /\ Runs(page_cnt) = {}
              /\ NoBlock(t)
              /\ UNCHANGED <<used, arena, data, held>>
        /\ UNCHANGED <<free_list, holder>>

lock_acquire(t) ==
    /\ \E l \in {"lock", "free_lock"} :
         /\ At(t, l)
         /\ LET d == IF l = "lock" THEN DescFor(op[t].size) ELSE arena[block_to_arena(op[t].addr)].desc
            IN  holder[d] = NoThread /\ holder' = [holder EXCEPT ![d] = t]
         /\ GoTo(t, IF l = "lock" THEN "page" ELSE "push")
    /\ UNCHANGED <<used, arena, free_list, data, held, op>>

(* A new arena when the free list is empty, if there is a page for it.       *)
NewArena(t) ==
    LET d == DescFor(op[t].size)
        p == FirstRun(1)
    IN  /\ At(t, "page")
        /\ \/ free_list[d] # <<>> /\ GoTo(t, "take") /\ UNCHANGED <<used, arena, free_list>>
           \/ free_list[d] = <<>> /\ Runs(1) = {} /\ GoTo(t, "no_page") /\ UNCHANGED <<used, arena, free_list>>
           \/ /\ free_list[d] = <<>> /\ Runs(1) # {}
              /\ used' = used \cup {p}
              /\ arena' = [arena EXCEPT ![p] = [desc |-> d, free_cnt |-> blocks_per_arena(d)]]
              /\ free_list' = [free_list EXCEPT ![d] = @ \o Blocks(p, d)]
              /\ GoTo(t, "take")
        /\ UNCHANGED <<holder, data, held, op>>

(* Take the first free block; then release the lock and return it.           *)
Take(t) ==
    LET d == DescFor(op[t].size) IN
    /\ At(t, "take")
    /\ op' = [op EXCEPT ![t].addr = Head(free_list[d])]
    /\ free_list' = [free_list EXCEPT ![d] = Tail(@)]
    /\ arena' = [arena EXCEPT ![block_to_arena(Head(free_list[d]))].free_cnt = @ - 1]
    /\ GoTo(t, "unlock")
    /\ UNCHANGED <<used, holder, data, held>>

Release(t) ==
    LET d == DescFor(op[t].size) IN
    /\ \/ At(t, "unlock") /\ Got(t, op[t].addr)
       \/ At(t, "no_page") /\ NoBlock(t) /\ UNCHANGED <<held, data>>
    /\ holder' = [holder EXCEPT ![d] = NoThread]
    /\ UNCHANGED <<used, arena, free_list>>

(* Mutant: realloc copies nothing when the block grows.                      *)
Copy_shrinking(t) ==
    LET o == op[t]
        n == IF o.size < block_size(o.old.addr) THEN o.size ELSE 0
    IN  /\ At(t, "copy")
        /\ data' = [data EXCEPT ![o.addr] = <<data[o.old.addr][1], SmallerOf(n, data[o.old.addr][2])>>]
        /\ held' = [held EXCEPT ![t] = (@ \ {o.old}) \cup {[addr |-> o.addr, want |-> o.want, must |-> SmallerOf(o.old.must, o.size)]}]
        /\ op' = [op EXCEPT ![t] = [NoOp EXCEPT !.addr = o.old.addr]]
        /\ GoTo(t, "free")
        /\ UNCHANGED <<used, arena, free_list, holder>>

(* realloc copies the smaller of the new size and the size of the old block. *)
Copy(t) ==
    LET o == op[t]
        n == SmallerOf(o.size, block_size(o.old.addr))
    IN  /\ At(t, "copy")
        /\ data' = [data EXCEPT ![o.addr] = <<data[o.old.addr][1], SmallerOf(n, data[o.old.addr][2])>>]
        /\ held' = [held EXCEPT ![t] = (@ \ {o.old}) \cup
                      {[addr |-> o.addr, want |-> o.want, must |-> SmallerOf(o.old.must, o.size)]}]
        /\ op' = [op EXCEPT ![t] = [NoOp EXCEPT !.addr = o.old.addr]]
        /\ GoTo(t, "free")
        /\ UNCHANGED <<used, arena, free_list, holder>>

-----------------------------------------------------------------------------
(* free; also realloc with a new size of zero.                               *)
free(t, h) ==
    /\ At(t, "run") /\ h \in held[t]
    /\ held' = [held EXCEPT ![t] = @ \ {h}]
    /\ op' = [op EXCEPT ![t] = [NoOp EXCEPT !.addr = h.addr]]
    /\ GoTo(t, "free")
    /\ UNCHANGED <<used, arena, free_list, holder, data>>

(* A big block gives its pages back; a normal one is poisoned first.         *)
FreeBlock(t) ==
    LET p == block_to_arena(op[t].addr) IN
    /\ At(t, "free")
    /\ data' = [data EXCEPT ![op[t].addr] = <<Null, 0>>]
    /\ IF arena[p].desc = 0
       THEN /\ used' = used \ (p .. p + arena[p].free_cnt - 1)
            /\ arena' = [arena EXCEPT ![p] = NoArena]
            /\ op' = [op EXCEPT ![t] = NoOp] /\ GoTo(t, "run")
       ELSE GoTo(t, "free_lock") /\ UNCHANGED <<used, arena, op>>
    /\ UNCHANGED <<free_list, holder, held>>

(* Mutant: the blocks of a freed arena stay on the free list.                *)
Push_keeps(t) ==
    LET a == op[t].addr
        p == block_to_arena(a)
        d == arena[p].desc
    IN  /\ At(t, "push")
        /\ free_list' = [free_list EXCEPT ![d] = <<a>> \o @]
        /\ IF arena[p].free_cnt + 1 >= blocks_per_arena(d)
           THEN arena' = [arena EXCEPT ![p] = NoArena] /\ used' = used \ {p}
           ELSE arena' = [arena EXCEPT ![p].free_cnt = @ + 1] /\ UNCHANGED used
        /\ holder' = [holder EXCEPT ![d] = NoThread]
        /\ op' = [op EXCEPT ![t] = NoOp] /\ GoTo(t, "run")
        /\ UNCHANGED <<data, held>>

(* Under the lock: back on the free list, and an arena that is now unused    *)
(* leaves the list and the kernel pool gets its page.                        *)
Push(t) ==
    LET a == op[t].addr
        p == block_to_arena(a)
        d == arena[p].desc
        mine == Range(Blocks(p, d))
        list == <<a>> \o free_list[d]
    IN  /\ At(t, "push")
        /\ IF arena[p].free_cnt + 1 >= blocks_per_arena(d)
           THEN /\ free_list' = [free_list EXCEPT ![d] = SelectSeq(list, LAMBDA x : x \notin mine)]
                /\ arena' = [arena EXCEPT ![p] = NoArena]
                /\ used' = used \ {p}
           ELSE /\ free_list' = [free_list EXCEPT ![d] = list]
                /\ arena' = [arena EXCEPT ![p].free_cnt = @ + 1]
                /\ UNCHANGED used
        /\ holder' = [holder EXCEPT ![d] = NoThread]
        /\ op' = [op EXCEPT ![t] = NoOp] /\ GoTo(t, "run")
        /\ UNCHANGED <<data, held>>

Next == \E t \in Threads :
    \/ \E size \in MallocSizes : malloc(t, size)
    \/ \E c \in CallocPairs : calloc(t, c[1], c[2])
    \/ \E h \in held[t] : free(t, h) \/ \E size \in ReallocSizes : realloc(t, h, size)
    \/ lock_acquire(t) \/ BigBlock(t) \/ NewArena(t) \/ Take(t) \/ Release(t)
    \/ Copy(t) \/ FreeBlock(t) \/ Push(t)

Spec == Init /\ [][Next]_vars

-----------------------------------------------------------------------------
(* Addresses in a thread's hands: its blocks, and one it is taking or giving. *)
Hands(t) ==
    {h.addr : h \in held[t]} \cup
    (IF pc[t] \in {"unlock", "copy", "free", "free_lock", "push"} THEN {op[t].addr} ELSE {})
OnList(p, d) == {k \in DOMAIN free_list[d] : block_to_arena(free_list[d][k]) = p}

(* malloc.c's arenas: whenever a descriptor's lock is free, every block of   *)
(* its arenas is on the free list once or with one thread, free_cnt counts   *)
(* the listed ones, no arena without a block in use is kept, and the list    *)
(* holds no block of a page that was given back.                             *)
ArenasAddUp ==
    \A d \in Descs : holder[d] = NoThread =>
        /\ IsInjective(free_list[d])
        /\ \A k \in DOMAIN free_list[d] : arena[block_to_arena(free_list[d][k])].desc = d
        /\ \A p \in used : arena[p].desc = d =>
             /\ arena[p].free_cnt = Cardinality(OnList(p, d))
             /\ arena[p].free_cnt < blocks_per_arena(d)
             /\ \A k \in DOMAIN Blocks(p, d) :
                  LET a == Blocks(p, d)[k]
                  IN  Cardinality({t \in Threads : a \in Hands(t)})
                        = (IF \E n \in OnList(p, d) : free_list[d][n] = a THEN 0 ELSE 1)

(* Blocks in use lie in pages in use and never overlap, whichever size they  *)
(* are of and whoever is allocating at the time.                             *)
BlocksDisjoint ==
    LET live == UNION {{h.addr : h \in held[t]} : t \in Threads}
        Bytes(a) == a .. a + block_size(a) - 1
    IN  /\ \A a, b \in live : a # b => Bytes(a) \cap Bytes(b) = {}
        /\ \A a \in live : \A x \in Bytes(a) : x \div PGSIZE \in used

(* A block keeps what its owner put into it until the owner frees it, across *)
(* a realloc that moves it and one that fails.                               *)
DataKept ==
    \A t \in Threads : \A h \in held[t] : data[h.addr][1] = t /\ data[h.addr][2] >= h.must

(* malloc.c:82: "Obtains and returns a new block of at least SIZE bytes", and *)
(* malloc.c:153, of calloc: "make sure it fits in size_t".                   *)
BlockHoldsRequest ==
    \A t \in Threads : \A h \in held[t] : h.want <= block_size(h.addr)
=============================================================================
