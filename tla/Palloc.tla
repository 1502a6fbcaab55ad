------------------------------- MODULE Palloc -------------------------------
(***************************************************************************)
(* threads/palloc.c at run time: groups of pages from two pools, each      *)
(* under its lock, with interrupts on.  A call is cut at lock_acquire,     *)
(* between scanning and marking, at lock_release and at the two memsets.   *)
(* Who runs next is left open; a lock is a holder (Synch has the rest).    *)
(***************************************************************************)
EXTENDS Integers, FiniteSets, FiniteSetsExt

CONSTANTS
    Threads, NoThread,
    KernelPages, UserPages,    \* sizes of the pools
    MaxCnt,                    \* largest page_cnt asked for
    MaxHeld,                   \* how many groups a thread keeps
    BITMAP_ERROR

Pools == {"kernel", "user"}
Size == [kernel |-> KernelPages, user |-> UserPages]

VARIABLES
    used,       \* used_map of each pool
    holder,     \* lock of each pool
    content,    \* what fills each page: "zero", "cc", or the thread that wrote last
    pc, req,    \* per thread: where it is; [pool, cnt, flags, idx]
    held,       \* per thread: the groups it was given
    halted      \* "no", "panic" or "assert"

vars == <<used, holder, content, pc, req, held, halted>>

NoReq == [pool |-> "kernel", cnt |-> 0, flags |-> {}, idx |-> 0]
Group(r) == {<<r.pool, p>> : p \in r.idx .. r.idx + r.cnt - 1}

Init ==
    /\ used = [p \in Pools |-> [k \in 0 .. Size[p] - 1 |-> FALSE]]
    /\ holder = [p \in Pools |-> NoThread]
    /\ content = [p \in Pools |-> [k \in 0 .. Size[p] - 1 |-> "cc"]]
    /\ pc = [t \in Threads |-> "run"] /\ req = [t \in Threads |-> NoReq]
    /\ held = [t \in Threads |-> {}]
    /\ halted = "no"

At(t, label) == pc[t] = label /\ halted = "no"
GoTo(t, label) == pc' = [pc EXCEPT ![t] = label]
Fill(r, what) ==
    content' = [content EXCEPT ![r.pool] =
                  [k \in DOMAIN content[r.pool] |->
                     IF <<r.pool, k>> \in Group(r) THEN what ELSE content[r.pool][k]]]
Mark(r, value) ==
    used' = [used EXCEPT ![r.pool] =
               [k \in DOMAIN used[r.pool] |->
                  IF <<r.pool, k>> \in Group(r) THEN value ELSE used[r.pool][k]]]

bitmap_scan(map, cnt) ==
    LET hits == {k \in DOMAIN map : \A n \in k .. k + cnt - 1 : n \in DOMAIN map /\ ~map[n]}
    IN  IF hits = {} THEN BITMAP_ERROR ELSE Min(hits)

-----------------------------------------------------------------------------
(* palloc_get_multiple                                                       *)
palloc_get_multiple(t, p, cnt, flags) ==
    /\ At(t, "run") /\ Cardinality(held[t]) < MaxHeld
    /\ req' = [req EXCEPT ![t] = [pool |-> p, cnt |-> cnt, flags |-> flags, idx |-> 0]]
    /\ GoTo(t, "get_lock")
    /\ UNCHANGED <<used, holder, content, held, halted>>

(* Mutant: the lock is taken but not waited for.                             *)
lock_acquire_free(t) ==
    /\ \E l \in {"get_lock", "free_lock"} : At(t, l) /\ GoTo(t, IF l = "get_lock" THEN "scan" ELSE "clear")
    /\ holder' = [holder EXCEPT ![req[t].pool] = t]
    /\ UNCHANGED <<used, content, req, held, halted>>

lock_acquire(t) ==
    /\ \E l \in {"get_lock", "free_lock"} : At(t, l) /\ GoTo(t, IF l = "get_lock" THEN "scan" ELSE "clear")
    /\ holder[req[t].pool] = NoThread
    /\ holder' = [holder EXCEPT ![req[t].pool] = t]
    /\ UNCHANGED <<used, content, req, held, halted>>

(* bitmap_scan_and_flip: first the scan, then the bits.                      *)
Scan(t) ==
    /\ At(t, "scan")
    /\ req' = [req EXCEPT ![t].idx = bitmap_scan(used[req[t].pool], req[t].cnt)]
    /\ GoTo(t, IF bitmap_scan(used[req[t].pool], req[t].cnt) = BITMAP_ERROR THEN "fail_unlock" ELSE "flip")
    /\ UNCHANGED <<used, holder, content, held, halted>>

Flip(t) ==
    /\ At(t, "flip")
    /\ Mark(req[t], TRUE)
    /\ GoTo(t, "got_unlock")
    /\ UNCHANGED <<holder, content, req, held, halted>>

lock_release(t) ==
    /\ \/ At(t, "got_unlock") /\ GoTo(t, "zero") /\ UNCHANGED req
       \/ At(t, "fail_unlock") /\ GoTo(t, "fail") /\ UNCHANGED req
       \/ At(t, "free_unlock") /\ GoTo(t, "run") /\ req' = [req EXCEPT ![t] = NoReq]
    /\ holder' = [holder EXCEPT ![req[t].pool] = NoThread]
    /\ UNCHANGED <<used, content, held, halted>>

(* Mutant: only the first page of a group is zeroed.                         *)
Return_one(t) ==
    /\ At(t, "zero")
    /\ IF "PAL_ZERO" \in req[t].flags THEN Fill([req[t] EXCEPT !.cnt = 1], "zero") ELSE UNCHANGED content
    /\ held' = [held EXCEPT ![t] = held[t] \cup {[req[t] EXCEPT !.flags = @ \cap {"PAL_ZERO"}]}]
    /\ req' = [req EXCEPT ![t] = NoReq]
    /\ GoTo(t, "run")
    /\ UNCHANGED <<used, holder, halted>>

(* The memset of PAL_ZERO, and the return.                                   *)
Return(t) ==
    /\ At(t, "zero")
    /\ IF "PAL_ZERO" \in req[t].flags THEN Fill(req[t], "zero") ELSE UNCHANGED content
    /\ held' = [held EXCEPT ![t] = held[t] \cup {[req[t] EXCEPT !.flags = @ \cap {"PAL_ZERO"}]}]
    /\ req' = [req EXCEPT ![t] = NoReq]
    /\ GoTo(t, "run")
    /\ UNCHANGED <<used, holder, halted>>

(* A null pointer, or the panic of PAL_ASSERT.                               *)
Fail(t) ==
    /\ At(t, "fail")
    /\ halted' = IF "PAL_ASSERT" \in req[t].flags THEN "panic" ELSE halted
    /\ GoTo(t, "run") /\ req' = [req EXCEPT ![t] = NoReq]
    /\ UNCHANGED <<used, holder, content, held>>

-----------------------------------------------------------------------------
(* palloc_free_multiple: poison, then under the lock check and clear.        *)
palloc_free_multiple(t, g) ==
    /\ At(t, "run") /\ g \in held[t]
    /\ req' = [req EXCEPT ![t] = g]
    /\ held' = [held EXCEPT ![t] = @ \ {g}]
    /\ Fill(g, "cc")
    /\ GoTo(t, "free_lock")
    /\ UNCHANGED <<used, holder, halted>>

Clear(t) ==
    /\ At(t, "clear")
    /\ halted' = IF \A x \in Group(req[t]) : used[x[1]][x[2]] THEN halted ELSE "assert"
    /\ Mark(req[t], FALSE)
    /\ GoTo(t, "free_unlock")
    /\ UNCHANGED <<holder, content, req, held>>

(* The caller writes to a page of its own.                                   *)
Write(t) ==
    /\ At(t, "run")
    /\ \E g \in held[t] : Fill(g, t)
    /\ UNCHANGED <<used, holder, pc, req, held, halted>>

Next == \E t \in Threads :
    \/ \E p \in Pools, cnt \in 1 .. MaxCnt, flags \in {{}, {"PAL_ZERO"}, {"PAL_ASSERT"}} : palloc_get_multiple(t, p, cnt, flags)
    \/ lock_acquire(t) \/ Scan(t) \/ Flip(t) \/ lock_release(t) \/ Return(t) \/ Fail(t)
    \/ \E g \in held[t] : palloc_free_multiple(t, g)
    \/ Clear(t) \/ Write(t)

Spec == Init /\ [][Next]_vars

-----------------------------------------------------------------------------
(* The groups of a thread: those it holds, and one on its way to or from it. *)
InHand(t) == IF pc[t] \in {"got_unlock", "zero", "free_lock", "clear"} THEN {req[t]} ELSE {}
Owned == UNION {{<<t, g>> : g \in held[t] \cup InHand(t)} : t \in Threads}

(* palloc_get_multiple and palloc_free_multiple: no page is in two groups,   *)
(* and a page is marked used exactly while it is in one, so nothing leaks    *)
(* on the failing path, nothing is given twice, and the assertion of         *)
(* palloc_free_multiple holds.                                               *)
PagesOwnedOnce ==
    /\ halted # "assert"
    /\ \A x, y \in Owned : x # y => Group(x[2]) \cap Group(y[2]) = {}
    /\ UNION {Group(x[2]) : x \in Owned} = UNION {{<<p, k>> : k \in {n \in DOMAIN used[p] : used[p][n]}} : p \in Pools}

(* Both memsets run outside the lock: a page its owner asked to be zeroed    *)
(* holds zeros or what the owner wrote, never the poison of another.         *)
OwnerSeesOwnData ==
    \A t \in Threads : \A g \in held[t] : \A x \in Group(g) :
        content[x[1]][x[2]] \in {t, IF "PAL_ZERO" \in g.flags THEN "zero" ELSE content[x[1]][x[2]]}
=============================================================================
