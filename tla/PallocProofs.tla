--------------------------- MODULE PallocProofs ----------------------------
(***************************************************************************)
(* The page allocator at run time (module Palloc), for pools of any size,  *)
(* any number of threads and any requests: no page is given twice and none *)
(* is lost, the assertion of palloc_free_multiple never fails, and a page  *)
(* asked to be zeroed shows its owner zeros or the owner's own data.       *)
(***************************************************************************)
EXTENDS Palloc, TLAPS, WellFoundedInduction

(* What the constants must be: pools have sizes, BITMAP_ERROR is no page    *)
(* and a lock nobody holds is told from one a thread holds.                 *)
Sane ==
    /\ KernelPages \in Nat /\ UserPages \in Nat /\ MaxCnt \in Nat
    /\ BITMAP_ERROR \notin Nat /\ NoThread \notin Threads

(* The pages of a pool and of a group, and the requests threads make.       *)
Index(p) == 0 .. Size[p] - 1
Span(g) == g.idx .. g.idx + g.cnt - 1
Reqs == [pool : Pools, cnt : Nat, flags : SUBSET {"PAL_ZERO", "PAL_ASSERT"}, idx : Nat \cup {BITMAP_ERROR}]

(* A group of pages of its pool.                                            *)
Whole(g) == /\ g \in Reqs /\ g.idx \in Nat /\ g.cnt >= 1
            /\ \A k \in Span(g) : k \in Index(g.pool)

(* Where a thread can be, and where it has the lock of its pool.            *)
Locked == {"scan", "flip", "got_unlock", "fail_unlock", "clear", "free_unlock"}
Labels == Locked \cup {"run", "get_lock", "zero", "fail", "free_lock"}

(* The values of the variables, with the assertion not yet failed.          *)
TypeInv ==
    /\ used = [p \in Pools |-> used[p]] /\ \A p \in Pools : used[p] \in [Index(p) -> BOOLEAN]
    /\ content = [p \in Pools |-> content[p]]
    /\ \A p \in Pools : content[p] = [k \in Index(p) |-> content[p][k]]
    /\ holder \in [Pools -> Threads \cup {NoThread}]
    /\ pc \in [Threads -> Labels] /\ req \in [Threads -> Reqs]
    /\ held \in [Threads -> SUBSET Reqs]
    /\ halted \in {"no", "panic"}

(* The pool's lock is held exactly from lock_acquire to lock_release.       *)
LockInv ==
    \A t \in Threads : \A p \in Pools : holder[p] = t <=> pc[t] \in Locked /\ req[t].pool = p

(* The groups of a thread are whole and marked, no two of any threads meet, *)
(* and every page marked is in one.  What a scan found stays free until it  *)
(* is marked, and a group on its way is not also kept.                      *)
Mine(t) == held[t] \cup InHand(t)
OwnCore ==
    /\ \A t \in Threads : \A g \in Mine(t) : Whole(g) /\ \A k \in Span(g) : used[g.pool][k]
    /\ \A t, u \in Threads : \A g \in Mine(t), h \in Mine(u) :
          (t = u /\ g = h) \/ g.pool # h.pool \/ Span(g) \cap Span(h) = {}
    /\ \A p \in Pools : \A k \in Index(p) :
          used[p][k] => \E t \in Threads : \E g \in Mine(t) : g.pool = p /\ k \in Span(g)
Path(t) ==
    /\ pc[t] \in {"get_lock", "scan"} => req[t].cnt >= 1
    /\ pc[t] = "flip" => Whole(req[t]) /\ \A k \in Span(req[t]) : ~used[req[t].pool][k]
    /\ pc[t] \in {"got_unlock", "zero", "free_lock", "clear"} => req[t] \notin held[t]
PathInv == \A t \in Threads : Path(t)

(* Pages of groups asked to be zeroed hold zeros or what their owner wrote. *)
DataInv ==
    \A t \in Threads : \A g \in held[t] :
        "PAL_ZERO" \in g.flags => \A k \in Span(g) : content[g.pool][k] \in {t, "zero"}

(* The inductive invariant.                                                 *)
PInv == TypeInv /\ LockInv /\ OwnCore /\ PathInv /\ DataInv

-----------------------------------------------------------------------------
(* Sets of numbers have a least member.                                      *)
LEMMA Minima ==
    ASSUME NEW S, S \subseteq Nat, S # {}
    PROVE  \E x \in S : \A y \in S : x <= y
<1> DEFINE R == {p \in Nat \X Nat : p[1] < p[2]}
<1>1. OpToRel(<, Nat) = R
  BY DEF OpToRel
<1>2. IsWellFoundedOn(R, Nat)
  BY ZenonT(60), <1>1, NatLessThanWellFounded
<1>3. PICK x \in S : \A y \in S : ~ (<<y, x>> \in R)
  <2> HIDE DEF R
  <2> QED BY ZenonT(60), <1>2, WFMin
<1>4. ASSUME NEW y \in S PROVE x <= y
  <2>1. ~ (y < x)
    BY ZenonT(60), <1>3
  <2> QED BY <2>1
<1> QED BY ZenonT(60), <1>4

(* Sizes of the pools.                                                       *)
LEMMA Sizes ==
    ASSUME Sane
    PROVE  \A p \in Pools : Size[p] \in Nat
BY DEF Sane, Pools, Size

(* The pages of a group.                                                     *)
LEMMA GroupIs ==
    ASSUME NEW r
    PROVE  /\ \A p, k : <<p, k>> \in Group(r) <=> p = r.pool /\ k \in Span(r)
           /\ \A x \in Group(r) : x = <<r.pool, x[2]>> /\ x[1] = r.pool /\ x[2] \in Span(r)
<1>1. PICK a : a = r.pool
  BY ZenonT(60)
<1>2. PICK S : S = Span(r)
  BY ZenonT(60)
<1>3. Group(r) = {<<a, p>> : p \in S}
  BY ZenonT(60), <1>1, <1>2 DEF Group, Span
<1>4. /\ \A p, k : <<p, k>> \in {<<a, n>> : n \in S} <=> p = a /\ k \in S
      /\ \A x \in {<<a, n>> : n \in S} : x = <<a, x[2]>> /\ x[1] = a /\ x[2] \in S
  OBVIOUS
<1> QED BY ZenonT(60), <1>1, <1>2, <1>3, <1>4

(* bitmap_scan finds a run of free pages inside the pool.                    *)
LEMMA ScanFacts ==
    ASSUME Sane, NEW p \in Pools, NEW map \in [Index(p) -> BOOLEAN], NEW cnt \in Nat, cnt >= 1,
           bitmap_scan(map, cnt) # BITMAP_ERROR
    PROVE  /\ bitmap_scan(map, cnt) \in Nat
           /\ \A n \in bitmap_scan(map, cnt) .. bitmap_scan(map, cnt) + cnt - 1 : n \in Index(p) /\ ~map[n]
<1>1. PICK hits : hits = {k \in DOMAIN map : \A n \in k .. k + cnt - 1 : n \in DOMAIN map /\ ~map[n]}
  BY ZenonT(60)
<1>2. hits # {} /\ bitmap_scan(map, cnt) = Min(hits)
  BY ZenonT(60), <1>1 DEF bitmap_scan
<1>3. DOMAIN map = Index(p)
  BY ZenonT(60)
<1>4. hits \subseteq Nat
  BY <1>1, <1>3, Sizes DEF Index
<1>5. \E x \in hits : \A y \in hits : x <= y
  BY ZenonT(60), <1>2, <1>4, Minima
<1>6. Min(hits) \in hits
  BY ZenonT(60), <1>5 DEF Min
<1> QED BY ZenonT(60), <1>1, <1>2, <1>3, <1>4, <1>6

(* What marking a group does to the map.                                     *)
LEMMA MarkFacts ==
    ASSUME Sane, TypeInv, NEW r \in Reqs, NEW v \in BOOLEAN, Mark(r, v)
    PROVE  /\ used' = [p \in Pools |-> used'[p]] /\ \A p \in Pools : used'[p] \in [Index(p) -> BOOLEAN]
           /\ \A p \in Pools : \A k \in Index(p) :
                 used'[p][k] = IF p = r.pool /\ k \in Span(r) THEN v ELSE used[p][k]
<1>1. PICK n \in Pools : n = r.pool
  BY DEF Reqs
<1>2. used = [p \in Pools |-> used[p]] /\ \A p \in Pools : used[p] \in [Index(p) -> BOOLEAN]
  BY ZenonT(60) DEF TypeInv
<1>3. PICK m : m = [k \in Index(n) |-> IF k \in Span(r) THEN v ELSE used[n][k]]
  BY ZenonT(60)
<1>4. DOMAIN used[n] = Index(n)
  BY ZenonT(60), <1>1, <1>2
<1>5. \A k : <<n, k>> \in Group(r) <=> k \in Span(r)
  BY ZenonT(60), <1>1, GroupIs
<1>6. used' = [used EXCEPT ![n] = m]
  BY ZenonT(60), <1>1, <1>3, <1>4, <1>5 DEF Mark
<1>7. m \in [Index(n) -> BOOLEAN] /\ \A k \in Index(n) : m[k] = IF k \in Span(r) THEN v ELSE used[n][k]
  BY ZenonT(60), <1>1, <1>2, <1>3
<1>8. used' = [p \in Pools |-> IF p = n THEN m ELSE used[p]]
  BY ZenonT(60), <1>1, <1>2, <1>6
<1>9. \A p \in Pools : used'[p] = IF p = n THEN m ELSE used[p]
  BY ZenonT(60), <1>8
<1>10. used' = [p \in Pools |-> used'[p]]
  BY ZenonT(60), <1>8
<1>11. \A p \in Pools : used'[p] \in [Index(p) -> BOOLEAN]
  BY ZenonT(60), <1>2, <1>7, <1>9
<1> QED BY ZenonT(60), <1>1, <1>7, <1>9, <1>10, <1>11

(* What memset does to the pages of a group.                                 *)
LEMMA FillFacts ==
    ASSUME Sane, TypeInv, NEW r \in Reqs, NEW v, Fill(r, v)
    PROVE  /\ content' = [p \in Pools |-> content'[p]]
           /\ \A p \in Pools : content'[p] = [k \in Index(p) |-> content'[p][k]]
           /\ \A p \in Pools : \A k \in Index(p) :
                 content'[p][k] = IF p = r.pool /\ k \in Span(r) THEN v ELSE content[p][k]
<1>1. PICK n \in Pools : n = r.pool
  BY DEF Reqs
<1>2. /\ content = [p \in Pools |-> content[p]]
      /\ \A p \in Pools : content[p] = [k \in Index(p) |-> content[p][k]]
  BY ZenonT(60) DEF TypeInv
<1>3. PICK m : m = [k \in Index(n) |-> IF k \in Span(r) THEN v ELSE content[n][k]]
  BY ZenonT(60)
<1>4. DOMAIN content[n] = Index(n)
  BY ZenonT(60), <1>1, <1>2
<1>5. \A k : <<n, k>> \in Group(r) <=> k \in Span(r)
  BY ZenonT(60), <1>1, GroupIs
<1>6. content' = [content EXCEPT ![n] = m]
  BY ZenonT(60), <1>1, <1>3, <1>4, <1>5 DEF Fill
<1>7. \A k \in Index(n) : m[k] = IF k \in Span(r) THEN v ELSE content[n][k]
  BY ZenonT(60), <1>3
<1>a. m = [k \in Index(n) |-> m[k]]
  BY ZenonT(60), <1>3
<1>8. content' = [p \in Pools |-> IF p = n THEN m ELSE content[p]]
  BY ZenonT(60), <1>1, <1>2, <1>6
<1>9. \A p \in Pools : content'[p] = IF p = n THEN m ELSE content[p]
  BY ZenonT(60), <1>8
<1>10. content' = [p \in Pools |-> content'[p]]
  BY ZenonT(60), <1>8
<1>11. \A p \in Pools : content'[p] = [k \in Index(p) |-> content'[p][k]]
  BY ZenonT(60), <1>2, <1>9, <1>a
<1> QED BY ZenonT(60), <1>1, <1>7, <1>9, <1>10, <1>11

-----------------------------------------------------------------------------
(* A thread that does not move keeps its groups and its place.               *)
LEMMA Others ==
    ASSUME NEW u, pc'[u] = pc[u], req'[u] = req[u], held'[u] = held[u]
    PROVE  Mine(u)' = Mine(u) /\ (used' = used /\ Path(u) => Path(u)')
BY ZenonT(60) DEF Mine, InHand, Path, Whole

(* The lock, when a step takes and releases none.                            *)
LEMMA SameLock ==
    ASSUME LockInv, NEW t \in Threads, holder' = holder,
           \A u \in Threads : u # t => pc'[u] = pc[u] /\ req'[u] = req[u],
           pc'[t] \in Locked <=> pc[t] \in Locked,
           pc[t] \in Locked => req'[t].pool = req[t].pool
    PROVE  LockInv'
<1> SUFFICES ASSUME NEW u \in Threads, NEW p \in Pools
             PROVE  holder'[p] = u <=> pc'[u] \in Locked /\ req'[u].pool = p
  BY ZenonT(60) DEF LockInv
<1>1. holder[p] = u <=> pc[u] \in Locked /\ req[u].pool = p
  BY ZenonT(60) DEF LockInv
<1>2. CASE u = t
  BY ZenonT(60), <1>1, <1>2
<1>3. CASE u # t
  BY ZenonT(60), <1>1, <1>3
<1> QED BY <1>2, <1>3

(* OwnCore after a step, from its parts.                                     *)
LEMMA OwnCoreParts ==
    ASSUME \A t \in Threads : \A g \in Mine(t)' : Whole(g) /\ \A k \in Span(g) : used'[g.pool][k],
           \A t, u \in Threads : \A g \in Mine(t)', h \in Mine(u)' :
               (t = u /\ g = h) \/ g.pool # h.pool \/ Span(g) \cap Span(h) = {},
           \A p \in Pools : \A k \in Index(p) :
               used'[p][k] => \E t \in Threads : \E g \in Mine(t)' : g.pool = p /\ k \in Span(g)
    PROVE  OwnCore'
BY ZenonT(60) DEF OwnCore

(* The marks and the owners of all pages, when neither changes.              *)
LEMMA SameOwn ==
    ASSUME OwnCore, used' = used, \A u \in Threads : Mine(u)' = Mine(u)
    PROVE  OwnCore'
<1>1. \A t \in Threads : \A g \in Mine(t)' : Whole(g) /\ \A k \in Span(g) : used'[g.pool][k]
  <2> SUFFICES ASSUME NEW t \in Threads, NEW g \in Mine(t)'
               PROVE  Whole(g) /\ \A k \in Span(g) : used'[g.pool][k]
    BY ZenonT(60)
  <2>1. g \in Mine(t)
    BY ZenonT(60)
  <2> QED BY ZenonT(60), <2>1 DEF OwnCore
<1>2. \A t, u \in Threads : \A g \in Mine(t)', h \in Mine(u)' :
        (t = u /\ g = h) \/ g.pool # h.pool \/ Span(g) \cap Span(h) = {}
  <2> SUFFICES ASSUME NEW t \in Threads, NEW u \in Threads, NEW g \in Mine(t)', NEW h \in Mine(u)'
               PROVE  (t = u /\ g = h) \/ g.pool # h.pool \/ Span(g) \cap Span(h) = {}
    BY ZenonT(60)
  <2>1. g \in Mine(t) /\ h \in Mine(u)
    BY ZenonT(60)
  <2> QED BY ZenonT(60), <2>1 DEF OwnCore
<1>3. \A p \in Pools : \A k \in Index(p) :
        used'[p][k] => \E t \in Threads : \E g \in Mine(t)' : g.pool = p /\ k \in Span(g)
  <2> SUFFICES ASSUME NEW p \in Pools, NEW k \in Index(p), used'[p][k]
               PROVE  \E t \in Threads : \E g \in Mine(t)' : g.pool = p /\ k \in Span(g)
    BY ZenonT(60)
  <2>1. PICK t \in Threads : \E g \in Mine(t) : g.pool = p /\ k \in Span(g)
    BY ZenonT(60) DEF OwnCore
  <2> QED BY ZenonT(60), <2>1
<1> QED BY ZenonT(60), <1>1, <1>2, <1>3, OwnCoreParts

(* A step of one thread that touches no page and no group.                   *)
LEMMA Quiet ==
    ASSUME Sane, PInv, NEW t \in Threads, UNCHANGED <<used, content, held>>,
           holder' \in [Pools -> Threads \cup {NoThread}], halted' \in {"no", "panic"},
           NEW l \in Labels, pc' = [pc EXCEPT ![t] = l],
           NEW r \in Reqs, req' = [req EXCEPT ![t] = r],
           LockInv', Mine(t)' = Mine(t), Path(t)'
    PROVE  PInv'
<1>i. TypeInv /\ LockInv /\ OwnCore /\ PathInv /\ DataInv
  BY ZenonT(60) DEF PInv
<1>1. pc' \in [Threads -> Labels] /\ \A u \in Threads : u # t => pc'[u] = pc[u]
  BY ZenonT(60), <1>i DEF TypeInv
<1>2. req' \in [Threads -> Reqs] /\ \A u \in Threads : u # t => req'[u] = req[u]
  BY ZenonT(60), <1>i DEF TypeInv
<1>3. TypeInv'
  BY ZenonT(60), <1>i, <1>1, <1>2 DEF TypeInv
<1>4. \A u \in Threads : u # t => Mine(u)' = Mine(u) /\ Path(u)'
  BY ZenonT(60), <1>i, <1>1, <1>2, Others DEF PathInv
<1>5. OwnCore'
  <2>1. \A u \in Threads : Mine(u)' = Mine(u)
    BY ZenonT(60), <1>4
  <2> QED BY ZenonT(60), <1>i, <2>1, SameOwn
<1>6. PathInv'
  BY ZenonT(60), <1>4 DEF PathInv
<1>7. DataInv'
  BY ZenonT(60), <1>i DEF DataInv
<1> QED BY ZenonT(60), <1>3, <1>5, <1>6, <1>7 DEF PInv

(* The function a thread's move leaves.                                      *)
LEMMA Moved ==
    ASSUME TypeInv, NEW t \in Threads
    PROVE  /\ \A l : GoTo(t, l) => pc' = [pc EXCEPT ![t] = l] /\ pc'[t] = l
           /\ \A r : req' = [req EXCEPT ![t] = r] => req'[t] = r
           /\ pc = [pc EXCEPT ![t] = pc[t]] /\ req = [req EXCEPT ![t] = req[t]]
           /\ pc[t] \in Labels /\ req[t] \in Reqs /\ req[t].pool \in Pools
<1> HIDE DEF Reqs, Labels
<1>1. \A l : GoTo(t, l) => pc' = [pc EXCEPT ![t] = l] /\ pc'[t] = l
  BY DEF TypeInv, GoTo
<1>2. \A r : req' = [req EXCEPT ![t] = r] => req'[t] = r
  BY DEF TypeInv
<1>3. pc = [pc EXCEPT ![t] = pc[t]] /\ req = [req EXCEPT ![t] = req[t]]
  BY DEF TypeInv
<1>4. pc[t] \in Labels /\ req[t] \in Reqs
  BY DEF TypeInv
<1>5. req[t].pool \in Pools
  BY <1>4 DEF Reqs
<1> QED BY <1>1, <1>2, <1>3, <1>4, <1>5

(* palloc_get_multiple is called.                                            *)
LEMMA GetInv ==
    ASSUME Sane, PInv, NEW t \in Threads, NEW p \in Pools, NEW cnt \in 1 .. MaxCnt,
           NEW flags \in {{}, {"PAL_ZERO"}, {"PAL_ASSERT"}}, palloc_get_multiple(t, p, cnt, flags)
    PROVE  PInv'
<1>i. TypeInv /\ LockInv /\ OwnCore /\ PathInv /\ DataInv
  BY ZenonT(60) DEF PInv
<1>1. PICK r : r = [pool |-> p, cnt |-> cnt, flags |-> flags, idx |-> 0]
  BY ZenonT(60)
<1>2. r \in Reqs /\ r.cnt >= 1
  BY <1>1 DEF Reqs, Sane
<1>3. /\ pc[t] = "run" /\ req' = [req EXCEPT ![t] = r] /\ GoTo(t, "get_lock")
      /\ UNCHANGED <<used, holder, content, held, halted>>
  BY ZenonT(60), <1>1 DEF palloc_get_multiple, At
<1>4. pc' = [pc EXCEPT ![t] = "get_lock"] /\ pc'[t] = "get_lock" /\ req'[t] = r
  BY ZenonT(60), <1>i, <1>3, Moved
<1>5. \A u \in Threads : u # t => pc'[u] = pc[u] /\ req'[u] = req[u]
  BY ZenonT(60), <1>i, <1>3, <1>4 DEF TypeInv
<1>6. LockInv'
  <2>1. pc'[t] \notin Locked /\ pc[t] \notin Locked
    BY <1>3, <1>4 DEF Locked
  <2> QED BY ZenonT(60), <1>i, <1>3, <1>5, <2>1, SameLock
<1>7. Mine(t)' = Mine(t)
  BY <1>3, <1>4 DEF Mine, InHand
<1>8. Path(t)'
  BY <1>2, <1>4 DEF Path
<1>9. "get_lock" \in Labels
  BY DEF Labels
<1> QED BY ZenonT(60), <1>i, <1>2, <1>3, <1>4, <1>6, <1>7, <1>8, <1>9, Quiet DEF TypeInv

(* lock_acquire of a pool nobody has locked.                                 *)
LEMMA AcquireInv ==
    ASSUME Sane, PInv, NEW t \in Threads, lock_acquire(t)
    PROVE  PInv'
<1>i. TypeInv /\ LockInv /\ OwnCore /\ PathInv /\ DataInv
  BY ZenonT(60) DEF PInv
<1>1. PICK l \in {"get_lock", "free_lock"} :
        pc[t] = l /\ halted = "no" /\ GoTo(t, IF l = "get_lock" THEN "scan" ELSE "clear")
  BY ZenonT(60) DEF lock_acquire, At
<1>2. PICK m \in {"scan", "clear"} : m = IF l = "get_lock" THEN "scan" ELSE "clear"
  BY ZenonT(60)
<1>3. PICK n \in Pools : n = req[t].pool
  BY ZenonT(60), <1>i, Moved
<1>4. /\ holder[n] = NoThread /\ holder' = [holder EXCEPT ![n] = t]
      /\ UNCHANGED <<used, content, req, held, halted>>
  BY ZenonT(60), <1>3 DEF lock_acquire
<1>5. pc' = [pc EXCEPT ![t] = m] /\ pc'[t] = m /\ req = [req EXCEPT ![t] = req[t]] /\ req[t] \in Reqs
  BY ZenonT(60), <1>i, <1>1, <1>2, Moved
<1>6. \A u \in Threads : u # t => pc'[u] = pc[u]
  BY ZenonT(60), <1>i, <1>5 DEF TypeInv
<1>7. /\ holder' \in [Pools -> Threads \cup {NoThread}] /\ holder'[n] = t
      /\ \A p \in Pools : p # n => holder'[p] = holder[p]
  BY ZenonT(60), <1>i, <1>3, <1>4 DEF TypeInv
<1>8. m \in Locked /\ m \in Labels /\ l \notin Locked
  BY <1>1, <1>2 DEF Locked, Labels
<1>9. LockInv'
  <2> SUFFICES ASSUME NEW u \in Threads, NEW p \in Pools
               PROVE  holder'[p] = u <=> pc'[u] \in Locked /\ req'[u].pool = p
    BY ZenonT(60) DEF LockInv
  <2>1. holder[p] = u <=> pc[u] \in Locked /\ req[u].pool = p
    BY ZenonT(60), <1>i DEF LockInv
  <2>2. u # NoThread
    BY ZenonT(60) DEF Sane
  <2>3. CASE u = t
    BY ZenonT(60), <2>1, <2>3, <1>1, <1>3, <1>4, <1>5, <1>7, <1>8
  <2>4. CASE u # t /\ p = n
    BY ZenonT(60), <2>1, <2>2, <2>4, <1>4, <1>6, <1>7
  <2>5. CASE u # t /\ p # n
    BY ZenonT(60), <2>1, <2>5, <1>4, <1>6, <1>7
  <2> QED BY <2>3, <2>4, <2>5
<1>10. Mine(t)' = Mine(t)
  <2>1. CASE l = "get_lock"
    BY <1>1, <1>2, <1>4, <1>5, <2>1 DEF Mine, InHand
  <2>2. CASE l = "free_lock"
    BY <1>1, <1>2, <1>4, <1>5, <2>2 DEF Mine, InHand
  <2> QED BY <1>1, <2>1, <2>2
<1>11. Path(t)'
  <2>1. Path(t)
    BY ZenonT(60), <1>i DEF PathInv
  <2>2. CASE l = "get_lock"
    BY <1>1, <1>2, <1>4, <1>5, <2>1, <2>2 DEF Path
  <2>3. CASE l = "free_lock"
    BY <1>1, <1>2, <1>4, <1>5, <2>1, <2>3 DEF Path
  <2> QED BY <1>1, <2>2, <2>3
<1>12. halted' \in {"no", "panic"}
  BY ZenonT(60), <1>1, <1>4
<1> QED BY ZenonT(60), <1>4, <1>5, <1>7, <1>8, <1>9, <1>10, <1>11, <1>12, Quiet

(* bitmap_scan: what it finds is free, or the call fails.                    *)
LEMMA ScanInv ==
    ASSUME Sane, PInv, NEW t \in Threads, Scan(t)
    PROVE  PInv'
<1>i. TypeInv /\ LockInv /\ OwnCore /\ PathInv /\ DataInv
  BY ZenonT(60) DEF PInv
<1>1. PICK b : b = bitmap_scan(used[req[t].pool], req[t].cnt)
  BY ZenonT(60)
<1>2. PICK o \in Reqs : o = req[t] /\ o.pool \in Pools
  BY ZenonT(60), <1>i, Moved
<1>3. PICK r : r = [o EXCEPT !.idx = b]
  BY ZenonT(60)
<1>4. PICK l \in {"fail_unlock", "flip"} : l = IF b = BITMAP_ERROR THEN "fail_unlock" ELSE "flip"
  BY ZenonT(60)
<1>5. /\ pc[t] = "scan" /\ req' = [req EXCEPT ![t] = r] /\ GoTo(t, l)
      /\ UNCHANGED <<used, holder, content, held, halted>>
  BY ZenonT(60), <1>1, <1>2, <1>3, <1>4 DEF Scan, At
<1>6. o.cnt \in Nat /\ o.cnt >= 1
  <2>1. Path(t)
    BY ZenonT(60), <1>i DEF PathInv
  <2> QED BY <1>2, <1>5, <2>1 DEF Path, Reqs
<1>7. b # BITMAP_ERROR => /\ b \in Nat
                          /\ \A n \in b .. b + o.cnt - 1 : n \in Index(o.pool) /\ ~used[o.pool][n]
  <2>1. used[o.pool] \in [Index(o.pool) -> BOOLEAN]
    BY ZenonT(60), <1>i, <1>2 DEF TypeInv
  <2> QED BY ZenonT(60), <1>1, <1>2, <1>6, <2>1, ScanFacts
<1>8. r \in Reqs /\ r.pool = o.pool /\ r.cnt = o.cnt /\ r.idx = b
  <2>1. b \in Nat \cup {BITMAP_ERROR}
    BY ZenonT(60), <1>7
  <2> QED BY <1>2, <1>3, <2>1 DEF Reqs
<1>9. pc' = [pc EXCEPT ![t] = l] /\ pc'[t] = l /\ req'[t] = r
  BY ZenonT(60), <1>i, <1>5, Moved
<1>10. \A u \in Threads : u # t => pc'[u] = pc[u] /\ req'[u] = req[u]
  BY ZenonT(60), <1>i, <1>5, <1>9 DEF TypeInv
<1>11. LockInv'
  <2>1. pc'[t] \in Locked /\ pc[t] \in Locked /\ req'[t].pool = req[t].pool
    BY <1>2, <1>4, <1>5, <1>8, <1>9 DEF Locked
  <2> QED BY ZenonT(60), <1>i, <1>5, <1>10, <2>1, SameLock
<1>12. Mine(t)' = Mine(t)
  BY <1>4, <1>5, <1>9 DEF Mine, InHand
<1>13. Path(t)'
  <2>1. CASE l = "fail_unlock"
    BY <1>9, <2>1 DEF Path
  <2>2. CASE l = "flip"
    <3>1. b # BITMAP_ERROR
      BY <1>4, <2>2
    <3>2. Span(r) = b .. b + o.cnt - 1
      BY ZenonT(60), <1>8 DEF Span
    <3>3. Whole(r) /\ \A k \in Span(r) : ~used[r.pool][k]
      BY ZenonT(60), <1>6, <1>7, <1>8, <3>1, <3>2 DEF Whole
    <3> QED BY <1>5, <1>9, <2>2, <3>3 DEF Path
  <2> QED BY <1>4, <2>1, <2>2
<1>14. l \in Labels
  BY <1>4 DEF Labels, Locked
<1>15. holder' \in [Pools -> Threads \cup {NoThread}] /\ halted' \in {"no", "panic"}
  BY ZenonT(60), <1>i, <1>5 DEF TypeInv
<1> QED BY ZenonT(60), <1>5, <1>8, <1>9, <1>11, <1>12, <1>13, <1>14, <1>15, Quiet

(* The request of a thread that has none.                                    *)
LEMMA NoReqIsReq == NoReq \in Reqs
BY DEF NoReq, Reqs, Pools

(* lock_release of the pool's lock.                                          *)
LEMMA ReleaseInv ==
    ASSUME Sane, PInv, NEW t \in Threads, lock_release(t)
    PROVE  PInv'
<1>i. TypeInv /\ LockInv /\ OwnCore /\ PathInv /\ DataInv
  BY ZenonT(60) DEF PInv
<1>1. PICK n \in Pools : n = req[t].pool
  BY ZenonT(60), <1>i, Moved
<1>2. /\ holder' = [holder EXCEPT ![n] = NoThread]
      /\ UNCHANGED <<used, content, held, halted>>
  BY ZenonT(60), <1>1 DEF lock_release
<1>3. PICK l \in {"zero", "fail", "run"}, r \in Reqs :
        /\ pc[t] = (IF l = "zero" THEN "got_unlock" ELSE IF l = "fail" THEN "fail_unlock" ELSE "free_unlock")
        /\ GoTo(t, l) /\ req' = [req EXCEPT ![t] = r] /\ (l # "run" => r = req[t])
  <2>1. CASE At(t, "got_unlock") /\ GoTo(t, "zero") /\ req' = req
    BY <2>1, <1>i, Moved DEF At
  <2>2. CASE At(t, "fail_unlock") /\ GoTo(t, "fail") /\ req' = req
    BY <2>2, <1>i, Moved DEF At
  <2>3. CASE At(t, "free_unlock") /\ GoTo(t, "run") /\ req' = [req EXCEPT ![t] = NoReq]
    BY ZenonT(60), <2>3, NoReqIsReq DEF At
  <2> QED BY ZenonT(60), <2>1, <2>2, <2>3 DEF lock_release
<1>4. pc' = [pc EXCEPT ![t] = l] /\ pc'[t] = l /\ req'[t] = r
  BY ZenonT(60), <1>i, <1>3, Moved
<1>5. \A u \in Threads : u # t => pc'[u] = pc[u] /\ req'[u] = req[u]
  BY ZenonT(60), <1>i, <1>3, <1>4 DEF TypeInv
<1>6. /\ holder' \in [Pools -> Threads \cup {NoThread}] /\ holder'[n] = NoThread
      /\ \A p \in Pools : p # n => holder'[p] = holder[p]
  BY ZenonT(60), <1>i, <1>1, <1>2 DEF TypeInv
<1>7. l \in Labels /\ l \notin Locked /\ pc[t] \in Locked
  BY <1>3 DEF Labels, Locked
<1>8. LockInv'
  <2> SUFFICES ASSUME NEW u \in Threads, NEW p \in Pools
               PROVE  holder'[p] = u <=> pc'[u] \in Locked /\ req'[u].pool = p
    BY ZenonT(60) DEF LockInv
  <2>1. holder[p] = u <=> pc[u] \in Locked /\ req[u].pool = p
    BY ZenonT(60), <1>i DEF LockInv
  <2>a. holder[n] = t
    BY ZenonT(60), <1>i, <1>1, <1>7 DEF LockInv
  <2>2. u # NoThread
    BY ZenonT(60) DEF Sane
  <2>3. CASE u = t
    BY ZenonT(60), <2>1, <2>2, <2>3, <1>1, <1>4, <1>6, <1>7
  <2>4. CASE u # t /\ p = n
    BY ZenonT(60), <2>1, <2>2, <2>4, <2>a, <1>5, <1>6
  <2>5. CASE u # t /\ p # n
    BY ZenonT(60), <2>1, <2>5, <1>5, <1>6
  <2> QED BY <2>3, <2>4, <2>5
<1>9. Mine(t)' = Mine(t)
  <2>1. CASE l = "zero"
    BY <1>2, <1>3, <1>4, <2>1 DEF Mine, InHand
  <2>2. CASE l = "fail"
    BY <1>2, <1>3, <1>4, <2>2 DEF Mine, InHand
  <2>3. CASE l = "run"
    BY <1>2, <1>3, <1>4, <2>3 DEF Mine, InHand
  <2> QED BY <1>3, <2>1, <2>2, <2>3
<1>10. Path(t)'
  <2>1. Path(t)
    BY ZenonT(60), <1>i DEF PathInv
  <2>2. CASE l = "zero"
    BY <1>2, <1>3, <1>4, <2>1, <2>2 DEF Path
  <2>3. CASE l # "zero"
    BY <1>3, <1>4, <2>3 DEF Path
  <2> QED BY <2>2, <2>3
<1>11. halted' \in {"no", "panic"}
  BY ZenonT(60), <1>i, <1>2 DEF TypeInv
<1> QED BY ZenonT(60), <1>2, <1>3, <1>4, <1>6, <1>7, <1>8, <1>9, <1>10, <1>11, Quiet

(* A null pointer or a panic.                                                *)
LEMMA FailInv ==
    ASSUME Sane, PInv, NEW t \in Threads, Fail(t)
    PROVE  PInv'
<1>i. TypeInv /\ LockInv /\ OwnCore /\ PathInv /\ DataInv
  BY ZenonT(60) DEF PInv
<1>1. /\ pc[t] = "fail" /\ halted = "no" /\ GoTo(t, "run") /\ req' = [req EXCEPT ![t] = NoReq]
      /\ halted' = (IF "PAL_ASSERT" \in req[t].flags THEN "panic" ELSE halted)
      /\ UNCHANGED <<used, holder, content, held>>
  BY ZenonT(60) DEF Fail, At
<1>2. pc' = [pc EXCEPT ![t] = "run"] /\ pc'[t] = "run" /\ req'[t] = NoReq
  BY ZenonT(60), <1>i, <1>1, Moved
<1>3. \A u \in Threads : u # t => pc'[u] = pc[u] /\ req'[u] = req[u]
  BY ZenonT(60), <1>i, <1>1, <1>2 DEF TypeInv
<1>4. LockInv'
  <2>1. pc'[t] \notin Locked /\ pc[t] \notin Locked
    BY <1>1, <1>2 DEF Locked
  <2> QED BY ZenonT(60), <1>i, <1>1, <1>3, <2>1, SameLock
<1>5. Mine(t)' = Mine(t)
  BY <1>1, <1>2 DEF Mine, InHand
<1>6. Path(t)'
  BY <1>2 DEF Path
<1>7. "run" \in Labels
  BY DEF Labels
<1>8. holder' \in [Pools -> Threads \cup {NoThread}] /\ halted' \in {"no", "panic"}
  BY ZenonT(60), <1>i, <1>1 DEF TypeInv
<1> QED BY ZenonT(60), <1>1, <1>2, <1>4, <1>5, <1>6, <1>7, <1>8, NoReqIsReq, Quiet

-----------------------------------------------------------------------------
(* The second half of bitmap_scan_and_flip: the run that was free is marked, *)
(* and nobody has marked a page of it since.                                 *)
LEMMA FlipInv ==
    ASSUME Sane, PInv, NEW t \in Threads, Flip(t)
    PROVE  PInv'
<1>i. TypeInv /\ LockInv /\ OwnCore /\ PathInv /\ DataInv
  BY ZenonT(60) DEF PInv
<1>1. PICK r \in Reqs : r = req[t] /\ r.pool \in Pools
  BY ZenonT(60), <1>i, Moved
<1>2. /\ pc[t] = "flip" /\ Mark(r, TRUE) /\ GoTo(t, "got_unlock")
      /\ UNCHANGED <<holder, content, req, held, halted>>
  BY ZenonT(60), <1>1 DEF Flip, At
<1>3. pc' = [pc EXCEPT ![t] = "got_unlock"] /\ pc'[t] = "got_unlock"
  BY ZenonT(60), <1>i, <1>2, Moved
<1>4. \A u \in Threads : u # t => pc'[u] = pc[u]
  BY ZenonT(60), <1>i, <1>3 DEF TypeInv
<1>5. Whole(r) /\ \A k \in Span(r) : ~used[r.pool][k]
  BY ZenonT(60), <1>i, <1>1, <1>2 DEF PathInv, Path
<1>6. /\ used' = [p \in Pools |-> used'[p]] /\ \A p \in Pools : used'[p] \in [Index(p) -> BOOLEAN]
      /\ \A p \in Pools : \A k \in Index(p) :
            used'[p][k] = IF p = r.pool /\ k \in Span(r) THEN TRUE ELSE used[p][k]
  BY ZenonT(60), <1>i, <1>1, <1>2, MarkFacts
<1>7. "got_unlock" \in Labels /\ "got_unlock" \in Locked /\ "flip" \in Locked
  BY DEF Labels, Locked
<1>8. TypeInv'
  BY ZenonT(60), <1>i, <1>2, <1>3, <1>6, <1>7 DEF TypeInv
<1>9. LockInv'
  BY ZenonT(60), <1>i, <1>2, <1>3, <1>4, <1>7, SameLock
<1>10. Mine(t) = held[t] /\ Mine(t)' = held[t] \cup {r}
  BY <1>1, <1>2, <1>3 DEF Mine, InHand
<1>11. \A u \in Threads : u # t => Mine(u)' = Mine(u)
  BY ZenonT(60), <1>2, <1>4, Others
(* A group that was there before does not meet the new one.                  *)
<1>12. ASSUME NEW u \in Threads, NEW g \in Mine(u)
       PROVE  /\ Whole(g) /\ (g.pool # r.pool \/ Span(g) \cap Span(r) = {})
              /\ \A k \in Span(g) : used'[g.pool][k]
  <2>1. Whole(g) /\ \A k \in Span(g) : used[g.pool][k]
    BY ZenonT(60), <1>i, <1>12 DEF OwnCore
  <2>2. g.pool \in Pools /\ \A k \in Span(g) : k \in Index(g.pool)
    BY <2>1 DEF Whole, Reqs
  <2>3. g.pool # r.pool \/ Span(g) \cap Span(r) = {}
    BY ZenonT(60), <1>5, <2>1
  <2>4. \A k \in Span(g) : used'[g.pool][k]
    BY ZenonT(60), <1>6, <2>1, <2>2
  <2> QED BY ZenonT(60), <2>1, <2>3, <2>4
<1>13. \A k \in Span(r) : used'[r.pool][k]
  BY ZenonT(60), <1>1, <1>5, <1>6 DEF Whole
<1>14. \A u \in Threads : \A g \in Mine(u)' : g \in Mine(u) \/ (u = t /\ g = r)
  BY ZenonT(60), <1>10, <1>11
<1>15. \A u \in Threads : \A g \in Mine(u) : g \in Mine(u)'
  BY ZenonT(60), <1>10, <1>11
<1>16. OwnCore'
  <2>1. \A u \in Threads : \A g \in Mine(u)' : Whole(g) /\ \A k \in Span(g) : used'[g.pool][k]
    BY ZenonT(60), <1>5, <1>12, <1>13, <1>14
  <2>2. \A u, v \in Threads : \A g \in Mine(u)', h \in Mine(v)' :
          (u = v /\ g = h) \/ g.pool # h.pool \/ Span(g) \cap Span(h) = {}
    <3> SUFFICES ASSUME NEW u \in Threads, NEW v \in Threads, NEW g \in Mine(u)', NEW h \in Mine(v)'
                 PROVE  (u = v /\ g = h) \/ g.pool # h.pool \/ Span(g) \cap Span(h) = {}
      BY ZenonT(60)
    <3>1. CASE g \in Mine(u) /\ h \in Mine(v)
      BY ZenonT(60), <1>i, <3>1 DEF OwnCore
    <3>2. CASE g \in Mine(u) /\ v = t /\ h = r
      BY ZenonT(60), <3>2, <1>12
    <3>3. CASE u = t /\ g = r /\ h \in Mine(v)
      <4>1. h.pool # r.pool \/ Span(h) \cap Span(r) = {}
        BY ZenonT(60), <3>3, <1>12
      <4> QED BY ZenonT(60), <3>3, <4>1
    <3>4. CASE u = t /\ g = r /\ v = t /\ h = r
      BY ZenonT(60), <3>4
    <3> QED BY ZenonT(60), <1>14, <3>1, <3>2, <3>3, <3>4
  <2>3. \A p \in Pools : \A k \in Index(p) :
          used'[p][k] => \E u \in Threads : \E g \in Mine(u)' : g.pool = p /\ k \in Span(g)
    <3> SUFFICES ASSUME NEW p \in Pools, NEW k \in Index(p), used'[p][k]
                 PROVE  \E u \in Threads : \E g \in Mine(u)' : g.pool = p /\ k \in Span(g)
      BY ZenonT(60)
    <3>1. CASE p = r.pool /\ k \in Span(r)
      BY ZenonT(60), <3>1, <1>10
    <3>2. CASE ~(p = r.pool /\ k \in Span(r))
      <4>1. used[p][k]
        BY ZenonT(60), <3>2, <1>6
      <4>2. PICK u \in Threads : \E g \in Mine(u) : g.pool = p /\ k \in Span(g)
        BY ZenonT(60), <1>i, <4>1 DEF OwnCore
      <4> QED BY ZenonT(60), <4>2, <1>15
    <3> QED BY <3>1, <3>2
  <2> QED BY ZenonT(60), <2>1, <2>2, <2>3, OwnCoreParts
<1>17. r \notin held[t]
  <2> SUFFICES ASSUME r \in held[t] PROVE FALSE
    BY ZenonT(60)
  <2>1. Span(r) \cap Span(r) = {}
    BY ZenonT(60), <1>10, <1>12
  <2>2. r.idx \in Span(r)
    BY <1>5 DEF Whole, Span, Reqs
  <2> QED BY ZenonT(60), <2>1, <2>2
<1>18. PathInv'
  <2> SUFFICES ASSUME NEW u \in Threads PROVE Path(u)'
    BY ZenonT(60) DEF PathInv
  <2>1. Path(u)
    BY ZenonT(60), <1>i DEF PathInv
  <2>2. CASE u = t
    BY <1>1, <1>2, <1>3, <1>17, <2>2 DEF Path
  <2>3. CASE u # t /\ pc[u] # "flip"
    BY ZenonT(60), <1>2, <1>4, <2>1, <2>3 DEF Path
  <2>4. CASE u # t /\ pc[u] = "flip"
    <3>1. PICK o \in Reqs : o = req[u] /\ o.pool \in Pools
      BY ZenonT(60), <1>i, Moved
    <3>2. Whole(o) /\ \A k \in Span(o) : ~used[o.pool][k]
      BY ZenonT(60), <2>1, <2>4, <3>1 DEF Path
    <3>3. o.pool # r.pool
      <4>a. /\ holder[r.pool] = t <=> pc[t] \in Locked /\ req[t].pool = r.pool
            /\ holder[o.pool] = u <=> pc[u] \in Locked /\ req[u].pool = o.pool
        BY ZenonT(60), <1>i, <1>1, <3>1 DEF LockInv
      <4>b. pc[t] \in Locked /\ pc[u] \in Locked /\ req[t].pool = r.pool /\ req[u].pool = o.pool
        BY ZenonT(60), <1>1, <1>2, <1>7, <2>4, <3>1
      <4>1. holder[r.pool] = t
        BY <4>a, <4>b
      <4>2. holder[o.pool] = u
        BY <4>a, <4>b
      <4> QED BY ZenonT(60), <2>4, <4>1, <4>2
    <3>4. \A k \in Span(o) : ~used'[o.pool][k]
      BY ZenonT(60), <1>6, <3>1, <3>2, <3>3 DEF Whole
    <3>5. pc'[u] = "flip" /\ req'[u] = o
      BY ZenonT(60), <1>2, <1>4, <2>4, <3>1
    <3> QED BY <3>2, <3>4, <3>5 DEF Path
  <2> QED BY <2>2, <2>3, <2>4
<1>19. DataInv'
  BY ZenonT(60), <1>i, <1>2 DEF DataInv
<1> QED BY ZenonT(60), <1>8, <1>9, <1>16, <1>18, <1>19 DEF PInv

(* A group on its way becomes a kept one of the same pages.                  *)
LEMMA Swapped ==
    ASSUME OwnCore, used' = used, NEW t \in Threads, NEW H, NEW r, NEW s,
           Mine(t) = H \cup {r}, Mine(t)' = H \cup {s}, r \notin H,
           \A u \in Threads : u # t => Mine(u)' = Mine(u),
           Whole(s), s.pool = r.pool, Span(s) = Span(r)
    PROVE  OwnCore'
<1>1. \A u \in Threads : \A g \in Mine(u)' : (g \in Mine(u) /\ ~(u = t /\ g = r)) \/ (u = t /\ g = s)
  BY ZenonT(60)
<1>2. r \in Mine(t)
  BY ZenonT(60)
<1>3. \A k \in Span(s) : used'[s.pool][k]
  BY ZenonT(60), <1>2 DEF OwnCore
<1>4. \A u \in Threads : \A g \in Mine(u) : ~(u = t /\ g = r) =>
        (g.pool # s.pool \/ Span(g) \cap Span(s) = {}) /\ (s.pool # g.pool \/ Span(s) \cap Span(g) = {})
  <2> SUFFICES ASSUME NEW u \in Threads, NEW g \in Mine(u), ~(u = t /\ g = r)
               PROVE  (g.pool # s.pool \/ Span(g) \cap Span(s) = {})
                      /\ (s.pool # g.pool \/ Span(s) \cap Span(g) = {})
    BY ZenonT(60)
  <2>1. g.pool # r.pool \/ Span(g) \cap Span(r) = {}
    BY ZenonT(60), <1>2 DEF OwnCore
  <2> QED BY ZenonT(60), <2>1
<1>5. \A u \in Threads : \A g \in Mine(u)' : Whole(g) /\ \A k \in Span(g) : used'[g.pool][k]
  <2> SUFFICES ASSUME NEW u \in Threads, NEW g \in Mine(u)'
               PROVE  Whole(g) /\ \A k \in Span(g) : used'[g.pool][k]
    BY ZenonT(60)
  <2>1. CASE g \in Mine(u)
    BY ZenonT(60), <2>1 DEF OwnCore
  <2>2. CASE g = s
    BY ZenonT(60), <2>2, <1>3
  <2> QED BY ZenonT(60), <1>1, <2>1, <2>2
<1>6. \A u, v \in Threads : \A g \in Mine(u)', h \in Mine(v)' :
        (u = v /\ g = h) \/ g.pool # h.pool \/ Span(g) \cap Span(h) = {}
  <2> SUFFICES ASSUME NEW u \in Threads, NEW v \in Threads, NEW g \in Mine(u)', NEW h \in Mine(v)'
               PROVE  (u = v /\ g = h) \/ g.pool # h.pool \/ Span(g) \cap Span(h) = {}
    BY ZenonT(60)
  <2>1. CASE g \in Mine(u) /\ h \in Mine(v)
    BY ZenonT(60), <2>1 DEF OwnCore
  <2>2. CASE g \in Mine(u) /\ ~(u = t /\ g = r) /\ v = t /\ h = s
    BY ZenonT(60), <2>2, <1>4
  <2>3. CASE u = t /\ g = s /\ h \in Mine(v) /\ ~(v = t /\ h = r)
    BY ZenonT(60), <2>3, <1>4
  <2>4. CASE u = t /\ g = s /\ v = t /\ h = s
    BY ZenonT(60), <2>4
  <2> QED BY ZenonT(60), <1>1, <2>1, <2>2, <2>3, <2>4
<1>7. \A p \in Pools : \A k \in Index(p) :
        used'[p][k] => \E u \in Threads : \E g \in Mine(u)' : g.pool = p /\ k \in Span(g)
  <2> SUFFICES ASSUME NEW p \in Pools, NEW k \in Index(p), used'[p][k]
               PROVE  \E u \in Threads : \E g \in Mine(u)' : g.pool = p /\ k \in Span(g)
    BY ZenonT(60)
  <2>1. PICK u \in Threads : \E g \in Mine(u) : g.pool = p /\ k \in Span(g)
    BY ZenonT(60) DEF OwnCore
  <2>2. PICK g \in Mine(u) : g.pool = p /\ k \in Span(g)
    BY ZenonT(60), <2>1
  <2>3. CASE u = t /\ g = r
    <3>1. s \in Mine(t)' /\ s.pool = p /\ k \in Span(s)
      BY ZenonT(60), <2>2, <2>3
    <3> QED BY ZenonT(60), <3>1
  <2>4. CASE ~(u = t /\ g = r)
    <3>1. g \in Mine(u)'
      BY ZenonT(60), <2>4
    <3> QED BY ZenonT(60), <2>2, <3>1
  <2> QED BY <2>3, <2>4
<1> QED BY ZenonT(60), <1>5, <1>6, <1>7, OwnCoreParts

(* The group as it is kept: the pages are the same.                          *)
LEMMA KeptIs ==
    ASSUME NEW r \in Reqs, NEW s, s = [r EXCEPT !.flags = @ \cap {"PAL_ZERO"}]
    PROVE  /\ s \in Reqs /\ s.pool = r.pool /\ Span(s) = Span(r) /\ (Whole(r) => Whole(s))
           /\ ("PAL_ZERO" \in s.flags <=> "PAL_ZERO" \in r.flags)
<1>1. /\ s \in Reqs /\ s.pool = r.pool /\ s.idx = r.idx /\ s.cnt = r.cnt
      /\ s.flags = r.flags \cap {"PAL_ZERO"}
  BY DEF Reqs
<1>2. Span(s) = Span(r)
  BY ZenonT(60), <1>1 DEF Span
<1>3. Whole(r) => Whole(s)
  BY ZenonT(60), <1>1, <1>2 DEF Whole
<1> QED BY ZenonT(60), <1>1, <1>2, <1>3

(* palloc_get_multiple zeroes what it was asked to zero, and returns.        *)
LEMMA ReturnInv ==
    ASSUME Sane, PInv, NEW t \in Threads, Return(t)
    PROVE  PInv'
<1>i. TypeInv /\ LockInv /\ OwnCore /\ PathInv /\ DataInv
  BY ZenonT(60) DEF PInv
<1>1. PICK r \in Reqs : r = req[t] /\ r.pool \in Pools
  BY ZenonT(60), <1>i, Moved
<1>2. PICK s : s = [r EXCEPT !.flags = @ \cap {"PAL_ZERO"}]
  BY ZenonT(60)
<1>3. /\ pc[t] = "zero" /\ GoTo(t, "run")
      /\ held' = [held EXCEPT ![t] = held[t] \cup {s}] /\ req' = [req EXCEPT ![t] = NoReq]
      /\ UNCHANGED <<used, holder, halted>>
      /\ IF "PAL_ZERO" \in r.flags THEN Fill(r, "zero") ELSE UNCHANGED content
  BY ZenonT(60), <1>1, <1>2 DEF Return, At
<1>4. pc' = [pc EXCEPT ![t] = "run"] /\ pc'[t] = "run" /\ req'[t] = NoReq
  BY ZenonT(60), <1>i, <1>3, Moved
<1>5. s \in Reqs /\ s.pool = r.pool /\ Span(s) = Span(r) /\ (Whole(r) => Whole(s))
  BY ZenonT(60), <1>2, KeptIs
<1>z. "PAL_ZERO" \in s.flags <=> "PAL_ZERO" \in r.flags
  BY ZenonT(60), <1>2, KeptIs
<1>6. \A u \in Threads : u # t => pc'[u] = pc[u] /\ req'[u] = req[u] /\ held'[u] = held[u]
  BY ZenonT(60), <1>i, <1>3, <1>4 DEF TypeInv
<1>7. held'[t] = held[t] \cup {s} /\ held' \in [Threads -> SUBSET Reqs]
  <2> HIDE DEF Reqs
  <2> QED BY <1>i, <1>3, <1>5 DEF TypeInv
<1>8. /\ content' = [p \in Pools |-> content'[p]]
      /\ \A p \in Pools : content'[p] = [k \in Index(p) |-> content'[p][k]]
      /\ \A p \in Pools : \A k \in Index(p) : content'[p][k] = content[p][k] \/ content'[p][k] = "zero"
      /\ "PAL_ZERO" \in r.flags => \A k \in Index(r.pool) : k \in Span(r) => content'[r.pool][k] = "zero"
  <2>1. CASE "PAL_ZERO" \in r.flags
    <3>1. Fill(r, "zero")
      BY ZenonT(60), <1>3, <2>1
    <3>2. /\ content' = [p \in Pools |-> content'[p]]
          /\ \A p \in Pools : content'[p] = [k \in Index(p) |-> content'[p][k]]
          /\ \A p \in Pools : \A k \in Index(p) :
                content'[p][k] = IF p = r.pool /\ k \in Span(r) THEN "zero" ELSE content[p][k]
      BY ZenonT(60), <1>i, <3>1, FillFacts
    <3>3. \A p \in Pools : \A k \in Index(p) : content'[p][k] = content[p][k] \/ content'[p][k] = "zero"
      BY ZenonT(60), <3>2
    <3>4. \A k \in Index(r.pool) : k \in Span(r) => content'[r.pool][k] = "zero"
      BY ZenonT(60), <1>1, <3>2
    <3> QED BY ZenonT(60), <3>2, <3>3, <3>4
  <2>2. CASE ~("PAL_ZERO" \in r.flags)
    BY ZenonT(60), <1>i, <1>3, <2>2 DEF TypeInv
  <2> QED BY <2>1, <2>2
<1>9. "run" \in Labels /\ "run" \notin Locked /\ "zero" \notin Locked
  BY DEF Labels, Locked
<1>10. TypeInv'
  <2>1. pc' \in [Threads -> Labels]
    BY ZenonT(60), <1>i, <1>4, <1>9 DEF TypeInv
  <2>2. req' \in [Threads -> Reqs]
    BY ZenonT(60), <1>i, <1>3, NoReqIsReq DEF TypeInv
  <2> QED BY ZenonT(60), <1>i, <1>3, <1>7, <1>8, <2>1, <2>2 DEF TypeInv
<1>11. LockInv'
  BY ZenonT(60), <1>i, <1>3, <1>4, <1>6, <1>9, SameLock
<1>12. Mine(t) = held[t] \cup {r} /\ Mine(t)' = held[t] \cup {s}
  BY <1>1, <1>3, <1>4, <1>7 DEF Mine, InHand
<1>13. r \notin held[t]
  BY ZenonT(60), <1>i, <1>1, <1>3 DEF PathInv, Path
<1>14. \A u \in Threads : u # t => Mine(u)' = Mine(u) /\ Path(u)'
  BY ZenonT(60), <1>i, <1>3, <1>6, Others DEF PathInv
<1>15. Whole(r)
  BY ZenonT(60), <1>i, <1>12 DEF OwnCore
<1>16. OwnCore'
  BY ZenonT(60), <1>i, <1>3, <1>5, <1>12, <1>13, <1>14, <1>15, Swapped
<1>17. Path(t)'
  BY <1>4 DEF Path
<1>18. PathInv'
  BY ZenonT(60), <1>14, <1>17 DEF PathInv
<1>19. DataInv'
  <2> SUFFICES ASSUME NEW u \in Threads, NEW g \in held'[u], "PAL_ZERO" \in g.flags, NEW k \in Span(g)
               PROVE  content'[g.pool][k] \in {u, "zero"}
    BY ZenonT(60) DEF DataInv
  <2>1. CASE g \in held[u]
    <3>1. Whole(g)
      BY ZenonT(60), <1>i, <2>1 DEF OwnCore, Mine
    <3>2. g.pool \in Pools /\ k \in Index(g.pool)
      BY <3>1 DEF Whole, Reqs
    <3>3. content[g.pool][k] \in {u, "zero"}
      BY ZenonT(60), <1>i, <2>1 DEF DataInv
    <3> QED BY ZenonT(60), <1>8, <3>2, <3>3
  <2>2. CASE g = s
    <3>1. k \in Span(r) /\ g.pool = r.pool /\ "PAL_ZERO" \in r.flags
      BY ZenonT(60), <1>5, <1>z, <2>2
    <3>2. k \in Index(r.pool)
      BY ZenonT(60), <1>15, <3>1 DEF Whole
    <3> QED BY ZenonT(60), <1>8, <3>1, <3>2
  <2> QED BY ZenonT(60), <1>6, <1>7, <2>1, <2>2
<1> QED BY ZenonT(60), <1>10, <1>11, <1>16, <1>18, <1>19 DEF PInv

(* palloc_free_multiple poisons the pages of the group it is given.          *)
LEMMA FreeInv ==
    ASSUME Sane, PInv, NEW t \in Threads, NEW g \in held[t], palloc_free_multiple(t, g)
    PROVE  PInv'
<1>i. TypeInv /\ LockInv /\ OwnCore /\ PathInv /\ DataInv
  BY ZenonT(60) DEF PInv
<1>1. /\ pc[t] = "run" /\ GoTo(t, "free_lock") /\ Fill(g, "cc")
      /\ held' = [held EXCEPT ![t] = held[t] \ {g}] /\ req' = [req EXCEPT ![t] = g]
      /\ UNCHANGED <<used, holder, halted>>
  BY ZenonT(60) DEF palloc_free_multiple, At
<1>2. g \in Reqs /\ g \in Mine(t)
  <2> HIDE DEF Reqs
  <2>1. held[t] \in SUBSET Reqs
    BY ZenonT(60), <1>i DEF TypeInv
  <2> QED BY ZenonT(60), <2>1 DEF Mine
<1>3. pc' = [pc EXCEPT ![t] = "free_lock"] /\ pc'[t] = "free_lock" /\ req'[t] = g
  BY ZenonT(60), <1>i, <1>1, Moved
<1>4. \A u \in Threads : u # t => pc'[u] = pc[u] /\ req'[u] = req[u] /\ held'[u] = held[u]
  BY ZenonT(60), <1>i, <1>1, <1>3 DEF TypeInv
<1>5. held'[t] = held[t] \ {g} /\ held' \in [Threads -> SUBSET Reqs]
  <2> HIDE DEF Reqs
  <2> QED BY <1>i, <1>1 DEF TypeInv
<1>6. /\ content' = [p \in Pools |-> content'[p]]
      /\ \A p \in Pools : content'[p] = [k \in Index(p) |-> content'[p][k]]
      /\ \A p \in Pools : \A k \in Index(p) :
            content'[p][k] = IF p = g.pool /\ k \in Span(g) THEN "cc" ELSE content[p][k]
  <2> HIDE DEF Reqs
  <2>1. g \in Reqs /\ TypeInv /\ Fill(g, "cc")
    BY ZenonT(60), <1>i, <1>1, <1>2
  <2> QED BY ZenonT(60), <2>1, FillFacts
<1>7. "free_lock" \in Labels /\ "run" \notin Locked /\ "free_lock" \notin Locked
  BY DEF Labels, Locked
<1>8. TypeInv'
  <2>1. pc' \in [Threads -> Labels]
    BY ZenonT(60), <1>i, <1>3, <1>7 DEF TypeInv
  <2>2. req' \in [Threads -> Reqs]
    BY ZenonT(60), <1>i, <1>1, <1>2 DEF TypeInv
  <2> QED BY ZenonT(60), <1>i, <1>1, <1>5, <1>6, <2>1, <2>2 DEF TypeInv
<1>9. LockInv'
  BY ZenonT(60), <1>i, <1>1, <1>3, <1>4, <1>7, SameLock
<1>10. Mine(t)' = Mine(t)
  BY <1>1, <1>3, <1>5 DEF Mine, InHand
<1>11. \A u \in Threads : u # t => Mine(u)' = Mine(u) /\ Path(u)'
  BY ZenonT(60), <1>i, <1>1, <1>4, Others DEF PathInv
<1>12. OwnCore'
  <2>1. \A u \in Threads : Mine(u)' = Mine(u)
    BY ZenonT(60), <1>10, <1>11
  <2> QED BY ZenonT(60), <1>i, <1>1, <2>1, SameOwn
<1>13. Path(t)'
  <2>1. req'[t] \notin held'[t]
    BY ZenonT(60), <1>3, <1>5
  <2> QED BY <1>3, <2>1 DEF Path
<1>14. PathInv'
  BY ZenonT(60), <1>11, <1>13 DEF PathInv
<1>15. DataInv'
  <2> SUFFICES ASSUME NEW u \in Threads, NEW h \in held'[u], "PAL_ZERO" \in h.flags, NEW k \in Span(h)
               PROVE  content'[h.pool][k] \in {u, "zero"}
    BY ZenonT(60) DEF DataInv
  <2>1. h \in held[u] /\ ~(u = t /\ h = g)
    BY ZenonT(60), <1>4, <1>5
  <2>2. h \in Mine(u)
    BY ZenonT(60), <2>1 DEF Mine
  <2>3. Whole(h) /\ (h.pool # g.pool \/ Span(h) \cap Span(g) = {})
    BY ZenonT(60), <1>i, <1>2, <2>1, <2>2 DEF OwnCore
  <2>4. h.pool \in Pools /\ k \in Index(h.pool)
    BY <2>3 DEF Whole, Reqs
  <2>5. content[h.pool][k] \in {u, "zero"}
    BY ZenonT(60), <1>i, <2>1 DEF DataInv
  <2>6. ~(h.pool = g.pool /\ k \in Span(g))
    BY ZenonT(60), <2>3
  <2>7. content'[h.pool][k] = content[h.pool][k]
    BY ZenonT(60), <1>6, <2>4, <2>6
  <2> QED BY ZenonT(60), <2>5, <2>7
<1> QED BY ZenonT(60), <1>8, <1>9, <1>12, <1>14, <1>15 DEF PInv

(* The caller writes to pages of its own.                                    *)
LEMMA WriteInv ==
    ASSUME Sane, PInv, NEW t \in Threads, Write(t)
    PROVE  PInv'
<1>i. TypeInv /\ LockInv /\ OwnCore /\ PathInv /\ DataInv
  BY ZenonT(60) DEF PInv
<1>1. PICK g \in held[t] : Fill(g, t)
  BY ZenonT(60) DEF Write
<1>2. UNCHANGED <<used, holder, pc, req, held, halted>>
  BY ZenonT(60) DEF Write
<1>3. g \in Reqs /\ g \in Mine(t)
  <2> HIDE DEF Reqs
  <2>1. held[t] \in SUBSET Reqs
    BY ZenonT(60), <1>i DEF TypeInv
  <2> QED BY ZenonT(60), <2>1 DEF Mine
<1>4. /\ content' = [p \in Pools |-> content'[p]]
      /\ \A p \in Pools : content'[p] = [k \in Index(p) |-> content'[p][k]]
      /\ \A p \in Pools : \A k \in Index(p) :
            content'[p][k] = IF p = g.pool /\ k \in Span(g) THEN t ELSE content[p][k]
  BY ZenonT(60), <1>i, <1>1, <1>3, FillFacts
<1>5. TypeInv'
  BY ZenonT(60), <1>i, <1>2, <1>4 DEF TypeInv
<1>6. LockInv'
  BY ZenonT(60), <1>i, <1>2 DEF LockInv
<1>7. \A u \in Threads : Mine(u)' = Mine(u) /\ Path(u)'
  BY ZenonT(60), <1>i, <1>2, Others DEF PathInv
<1>8. OwnCore'
  BY ZenonT(60), <1>i, <1>2, <1>7, SameOwn
<1>9. PathInv'
  BY ZenonT(60), <1>7 DEF PathInv
<1>10. DataInv'
  <2> SUFFICES ASSUME NEW u \in Threads, NEW h \in held'[u], "PAL_ZERO" \in h.flags, NEW k \in Span(h)
               PROVE  content'[h.pool][k] \in {u, "zero"}
    BY ZenonT(60) DEF DataInv
  <2>1. h \in held[u] /\ h \in Mine(u)
    BY ZenonT(60), <1>2 DEF Mine
  <2>3. Whole(h) /\ ((u = t /\ h = g) \/ h.pool # g.pool \/ Span(h) \cap Span(g) = {})
    BY ZenonT(60), <1>i, <1>3, <2>1 DEF OwnCore
  <2>4. h.pool \in Pools /\ k \in Index(h.pool)
    BY <2>3 DEF Whole, Reqs
  <2>5. content[h.pool][k] \in {u, "zero"}
    BY ZenonT(60), <1>i, <2>1 DEF DataInv
  <2>6. CASE h.pool = g.pool /\ k \in Span(g)
    <3>1. u = t
      BY ZenonT(60), <2>3, <2>6
    <3>2. content'[h.pool][k] = t
      BY ZenonT(60), <1>4, <2>4, <2>6
    <3> QED BY ZenonT(60), <3>1, <3>2
  <2>7. CASE ~(h.pool = g.pool /\ k \in Span(g))
    <3>1. content'[h.pool][k] = content[h.pool][k]
      BY ZenonT(60), <1>4, <2>4, <2>7
    <3> QED BY ZenonT(60), <2>5, <3>1
  <2> QED BY <2>6, <2>7
<1> QED BY ZenonT(60), <1>5, <1>6, <1>8, <1>9, <1>10 DEF PInv

(* palloc_free_multiple, under the lock: every page of the group is marked,  *)
(* so the assertion holds, and then none is.                                 *)
LEMMA ClearInv ==
    ASSUME Sane, PInv, NEW t \in Threads, Clear(t)
    PROVE  PInv'
<1>i. TypeInv /\ LockInv /\ OwnCore /\ PathInv /\ DataInv
  BY ZenonT(60) DEF PInv
<1>1. PICK r \in Reqs : r = req[t] /\ r.pool \in Pools
  BY ZenonT(60), <1>i, Moved
<1>2. /\ pc[t] = "clear" /\ Mark(r, FALSE) /\ GoTo(t, "free_unlock")
      /\ halted' = IF \A x \in Group(r) : used[x[1]][x[2]] THEN halted ELSE "assert"
      /\ UNCHANGED <<holder, content, req, held>>
  BY ZenonT(60), <1>1 DEF Clear, At
<1>3. pc' = [pc EXCEPT ![t] = "free_unlock"] /\ pc'[t] = "free_unlock"
  BY ZenonT(60), <1>i, <1>2, Moved
<1>4. \A u \in Threads : u # t => pc'[u] = pc[u]
  BY ZenonT(60), <1>i, <1>3 DEF TypeInv
<1>5. Mine(t) = held[t] \cup {r} /\ Mine(t)' = held[t]
  BY <1>1, <1>2, <1>3 DEF Mine, InHand
<1>6. r \notin held[t]
  BY ZenonT(60), <1>i, <1>1, <1>2 DEF PathInv, Path
<1>7. r \in Mine(t) /\ \A k \in Span(r) : used[r.pool][k]
  BY ZenonT(60), <1>i, <1>5 DEF OwnCore
<1>8. halted' = halted
  <2>1. \A x \in Group(r) : used[x[1]][x[2]]
    BY ZenonT(60), <1>7, GroupIs
  <2> QED BY ZenonT(60), <1>2, <2>1
<1>9. /\ used' = [p \in Pools |-> used'[p]] /\ \A p \in Pools : used'[p] \in [Index(p) -> BOOLEAN]
      /\ \A p \in Pools : \A k \in Index(p) :
            used'[p][k] = IF p = r.pool /\ k \in Span(r) THEN FALSE ELSE used[p][k]
  BY ZenonT(60), <1>i, <1>1, <1>2, MarkFacts
<1>10. "free_unlock" \in Labels /\ "free_unlock" \in Locked /\ "clear" \in Locked
  BY DEF Labels, Locked
<1>11. TypeInv'
  BY ZenonT(60), <1>i, <1>2, <1>3, <1>8, <1>9, <1>10 DEF TypeInv
<1>12. LockInv'
  BY ZenonT(60), <1>i, <1>2, <1>3, <1>4, <1>10, SameLock
<1>13. \A u \in Threads : u # t => Mine(u)' = Mine(u)
  BY ZenonT(60), <1>2, <1>4, Others
<1>14. \A u \in Threads : \A g \in Mine(u)' : g \in Mine(u) /\ ~(u = t /\ g = r)
  BY ZenonT(60), <1>5, <1>6, <1>13
<1>15. \A u \in Threads : \A g \in Mine(u) : ~(u = t /\ g = r) => g \in Mine(u)'
  BY ZenonT(60), <1>5, <1>13
<1>16. OwnCore'
  <2>1. \A u \in Threads : \A g \in Mine(u)' : Whole(g) /\ \A k \in Span(g) : used'[g.pool][k]
    <3> SUFFICES ASSUME NEW u \in Threads, NEW g \in Mine(u)'
                 PROVE  Whole(g) /\ \A k \in Span(g) : used'[g.pool][k]
      BY ZenonT(60)
    <3>1. g \in Mine(u) /\ ~(u = t /\ g = r)
      BY ZenonT(60), <1>14
    <3>2. /\ Whole(g) /\ \A k \in Span(g) : used[g.pool][k]
          /\ g.pool # r.pool \/ Span(g) \cap Span(r) = {}
      BY ZenonT(60), <1>i, <1>7, <3>1 DEF OwnCore
    <3>3. g.pool \in Pools /\ \A k \in Span(g) : k \in Index(g.pool)
      BY <3>2 DEF Whole, Reqs
    <3>4. \A k \in Span(g) : ~(g.pool = r.pool /\ k \in Span(r))
      BY ZenonT(60), <3>2
    <3>5. \A k \in Span(g) : used'[g.pool][k]
      BY ZenonT(60), <1>9, <3>2, <3>3, <3>4
    <3> QED BY ZenonT(60), <3>2, <3>5
  <2>2. \A u, v \in Threads : \A g \in Mine(u)', h \in Mine(v)' :
          (u = v /\ g = h) \/ g.pool # h.pool \/ Span(g) \cap Span(h) = {}
    <3> SUFFICES ASSUME NEW u \in Threads, NEW v \in Threads, NEW g \in Mine(u)', NEW h \in Mine(v)'
                 PROVE  (u = v /\ g = h) \/ g.pool # h.pool \/ Span(g) \cap Span(h) = {}
      BY ZenonT(60)
    <3>1. g \in Mine(u) /\ h \in Mine(v)
      BY ZenonT(60), <1>14
    <3> QED BY ZenonT(60), <1>i, <3>1 DEF OwnCore
  <2>3. \A p \in Pools : \A k \in Index(p) :
          used'[p][k] => \E u \in Threads : \E g \in Mine(u)' : g.pool = p /\ k \in Span(g)
    <3> SUFFICES ASSUME NEW p \in Pools, NEW k \in Index(p), used'[p][k]
                 PROVE  \E u \in Threads : \E g \in Mine(u)' : g.pool = p /\ k \in Span(g)
      BY ZenonT(60)
    <3>1. ~(p = r.pool /\ k \in Span(r)) /\ used[p][k]
      BY ZenonT(60), <1>9
    <3>2. PICK u \in Threads : \E g \in Mine(u) : g.pool = p /\ k \in Span(g)
      BY ZenonT(60), <1>i, <3>1 DEF OwnCore
    <3>3. PICK g \in Mine(u) : g.pool = p /\ k \in Span(g)
      BY ZenonT(60), <3>2
    <3>4. g # r
      BY ZenonT(60), <3>1, <3>3
    <3>5. g \in Mine(u)'
      BY ZenonT(60), <1>15, <3>4
    <3> QED BY ZenonT(60), <3>3, <3>5
  <2> QED BY ZenonT(60), <2>1, <2>2, <2>3, OwnCoreParts
<1>17. PathInv'
  <2> SUFFICES ASSUME NEW u \in Threads PROVE Path(u)'
    BY ZenonT(60) DEF PathInv
  <2>1. Path(u)
    BY ZenonT(60), <1>i DEF PathInv
  <2>2. CASE u = t
    BY <1>3, <2>2 DEF Path
  <2>3. CASE u # t /\ pc[u] # "flip"
    BY ZenonT(60), <1>2, <1>4, <2>1, <2>3 DEF Path
  <2>4. CASE u # t /\ pc[u] = "flip"
    <3>1. PICK o \in Reqs : o = req[u] /\ o.pool \in Pools
      BY ZenonT(60), <1>i, Moved
    <3>2. Whole(o) /\ \A k \in Span(o) : ~used[o.pool][k]
      BY ZenonT(60), <2>1, <2>4, <3>1 DEF Path
    <3>3. \A k \in Span(o) : k \in Index(o.pool)
      BY ZenonT(60), <3>2 DEF Whole
    <3>4. \A k \in Span(o) : ~used'[o.pool][k]
      BY ZenonT(60), <1>9, <3>1, <3>2, <3>3
    <3>5. pc'[u] = "flip" /\ req'[u] = o
      BY ZenonT(60), <1>2, <1>4, <2>4, <3>1
    <3> QED BY <3>2, <3>4, <3>5 DEF Path
  <2> QED BY <2>2, <2>3, <2>4
<1>18. DataInv'
  BY ZenonT(60), <1>i, <1>2 DEF DataInv
<1> QED BY ZenonT(60), <1>11, <1>12, <1>16, <1>17, <1>18 DEF PInv

(* After boot nothing is given out.                                          *)
LEMMA InitInv ==
    ASSUME Sane, Init
    PROVE  PInv
<1>1. /\ used = [p \in Pools |-> [k \in Index(p) |-> FALSE]] /\ holder = [p \in Pools |-> NoThread]
      /\ content = [p \in Pools |-> [k \in Index(p) |-> "cc"]] /\ pc = [t \in Threads |-> "run"]
      /\ req = [t \in Threads |-> NoReq] /\ held = [t \in Threads |-> {}] /\ halted = "no"
  BY ZenonT(60) DEF Init, Index
<1>2. "run" \in Labels /\ "run" \notin Locked
  BY DEF Labels, Locked
<1>3. \A p \in Pools : used[p] = [k \in Index(p) |-> FALSE] /\ content[p] = [k \in Index(p) |-> "cc"]
  BY ZenonT(60), <1>1
<1>4. \A t \in Threads : pc[t] = "run" /\ req[t] = NoReq /\ held[t] = {}
  BY ZenonT(60), <1>1
<1>5. TypeInv
  <2>1. used = [p \in Pools |-> used[p]] /\ \A p \in Pools : used[p] \in [Index(p) -> BOOLEAN]
    BY ZenonT(60), <1>1, <1>3
  <2>2. content = [p \in Pools |-> content[p]] /\ \A p \in Pools : content[p] = [k \in Index(p) |-> content[p][k]]
    BY ZenonT(60), <1>1, <1>3
  <2>3. holder \in [Pools -> Threads \cup {NoThread}]
    BY ZenonT(60), <1>1
  <2>4. pc \in [Threads -> Labels] /\ req \in [Threads -> Reqs] /\ held \in [Threads -> SUBSET Reqs]
    BY ZenonT(60), <1>1, <1>2, NoReqIsReq
  <2> QED BY ZenonT(60), <1>1, <2>1, <2>2, <2>3, <2>4 DEF TypeInv
<1>6. LockInv
  BY ZenonT(60), <1>1, <1>2, <1>4 DEF LockInv, Sane
<1>7. \A t \in Threads : Mine(t) = {}
  BY <1>4 DEF Mine, InHand
<1>8. OwnCore
  BY ZenonT(60), <1>3, <1>7 DEF OwnCore
<1>9. PathInv
  BY <1>4 DEF PathInv, Path
<1>10. DataInv
  BY ZenonT(60), <1>4 DEF DataInv
<1> QED BY ZenonT(60), <1>5, <1>6, <1>8, <1>9, <1>10 DEF PInv

(* Every step of every thread keeps the invariant.                           *)
LEMMA NextInv ==
    ASSUME Sane, PInv, Next
    PROVE  PInv'
<1>1. PICK t \in Threads :
        \/ \E p \in Pools, cnt \in 1 .. MaxCnt, flags \in {{}, {"PAL_ZERO"}, {"PAL_ASSERT"}} :
              palloc_get_multiple(t, p, cnt, flags)
        \/ lock_acquire(t) \/ Scan(t) \/ Flip(t) \/ lock_release(t) \/ Return(t) \/ Fail(t)
        \/ \E g \in held[t] : palloc_free_multiple(t, g)
        \/ Clear(t) \/ Write(t)
  BY ZenonT(60) DEF Next
<1>2. CASE \E p \in Pools, cnt \in 1 .. MaxCnt, flags \in {{}, {"PAL_ZERO"}, {"PAL_ASSERT"}} :
             palloc_get_multiple(t, p, cnt, flags)
  BY ZenonT(60), <1>2, GetInv
<1>3. CASE lock_acquire(t)
  BY ZenonT(60), <1>3, AcquireInv
<1>4. CASE Scan(t) \/ Flip(t)
  BY ZenonT(60), <1>4, ScanInv, FlipInv
<1>5. CASE lock_release(t)
  BY ZenonT(60), <1>5, ReleaseInv
<1>6. CASE Return(t) \/ Fail(t)
  BY ZenonT(60), <1>6, ReturnInv, FailInv
<1>7. CASE \E g \in held[t] : palloc_free_multiple(t, g)
  BY ZenonT(60), <1>7, FreeInv
<1>8. CASE Clear(t) \/ Write(t)
  BY ZenonT(60), <1>8, ClearInv, WriteInv
<1> QED BY <1>1, <1>2, <1>3, <1>4, <1>5, <1>6, <1>7, <1>8

-----------------------------------------------------------------------------
(* The invariant holds in every reachable state.                             *)
THEOREM PoolsAreConsistent ==
    ASSUME Sane
    PROVE  Spec => []PInv
<1>1. Init => PInv
  BY ZenonT(60), InitInv
<1>2. PInv /\ [Next]_vars => PInv'
  <2>1. CASE Next
    BY ZenonT(60), <2>1, NextInv
  <2>2. ASSUME PInv, UNCHANGED vars PROVE PInv'
    <3>1. /\ used' = used /\ holder' = holder /\ content' = content /\ pc' = pc /\ req' = req
          /\ held' = held /\ halted' = halted
      BY ZenonT(60), <2>2 DEF vars
    <3>2. TypeInv /\ LockInv /\ OwnCore /\ PathInv /\ DataInv
      BY ZenonT(60), <2>2 DEF PInv
    <3>a. TypeInv'
      BY ZenonT(60), <3>1, <3>2 DEF TypeInv
    <3>b. LockInv'
      BY ZenonT(60), <3>1, <3>2 DEF LockInv
    <3>3. TypeInv' /\ LockInv' /\ DataInv'
      BY ZenonT(60), <3>a, <3>b, <3>1, <3>2 DEF DataInv
    <3>4. \A u \in Threads : Mine(u)' = Mine(u) /\ Path(u)'
      BY ZenonT(60), <3>1, <3>2, Others DEF PathInv
    <3>5. OwnCore'
      BY ZenonT(60), <3>1, <3>2, <3>4, SameOwn
    <3> QED BY ZenonT(60), <3>3, <3>4, <3>5 DEF PInv, PathInv
  <2> QED BY <2>1, <2>2
<1> QED BY <1>1, <1>2, PTL DEF Spec

(* The invariant says whose the pages are.                                   *)
LEMMA OwnedOnce ==
    ASSUME Sane, PInv
    PROVE  PagesOwnedOnce
<1>i. TypeInv /\ OwnCore
  BY ZenonT(60) DEF PInv
<1>1. halted # "assert"
  BY <1>i DEF TypeInv
<1>2. \A x \in Owned : \E t \in Threads : \E g \in Mine(t) : x = <<t, g>>
  BY ZenonT(60) DEF Owned, Mine
<1>3. ASSUME NEW t \in Threads, NEW g \in Mine(t) PROVE <<t, g>> \in Owned
  <2>1. <<t, g>> \in {<<t, h>> : h \in held[t] \cup InHand(t)}
    BY ZenonT(60) DEF Mine
  <2> QED BY ZenonT(60), <2>1 DEF Owned
<1>4. \A t, g : <<t, g>>[2] = g
  OBVIOUS
<1>5. ASSUME NEW x \in Owned, NEW y \in Owned, x # y
      PROVE  Group(x[2]) \cap Group(y[2]) = {}
  <2>1. PICK t \in Threads : \E g \in Mine(t) : x = <<t, g>>
    BY ZenonT(60), <1>2
  <2>2. PICK g \in Mine(t) : x = <<t, g>>
    BY ZenonT(60), <2>1
  <2>3. PICK u \in Threads : \E h \in Mine(u) : y = <<u, h>>
    BY ZenonT(60), <1>2
  <2>4. PICK h \in Mine(u) : y = <<u, h>>
    BY ZenonT(60), <2>3
  <2>5. g.pool # h.pool \/ Span(g) \cap Span(h) = {}
    BY ZenonT(60), <1>5, <1>i, <2>2, <2>4 DEF OwnCore
  <2>6. \A z \in Group(g) : z \notin Group(h)
    <3> SUFFICES ASSUME NEW z \in Group(g), z \in Group(h) PROVE FALSE
      BY ZenonT(60)
    <3>1. z[1] = g.pool /\ z[2] \in Span(g)
      BY ZenonT(60), GroupIs
    <3>2. z[1] = h.pool /\ z[2] \in Span(h)
      BY ZenonT(60), GroupIs
    <3> QED BY ZenonT(60), <2>5, <3>1, <3>2
  <2>7. x[2] = g /\ y[2] = h
    BY ZenonT(60), <1>4, <2>2, <2>4
  <2> QED BY ZenonT(60), <2>6, <2>7
<1> DEFINE A == UNION {Group(x[2]) : x \in Owned}
           B == UNION {{<<p, k>> : k \in {n \in DOMAIN used[p] : used[p][n]}} : p \in Pools}
<1>6. \A p \in Pools : DOMAIN used[p] = Index(p)
  BY ZenonT(60), <1>i DEF TypeInv
<1>7. ASSUME NEW z \in A PROVE z \in B
  <2>1. PICK x \in Owned : z \in Group(x[2])
    BY ZenonT(60)
  <2>2. PICK t \in Threads : \E g \in Mine(t) : x = <<t, g>>
    BY ZenonT(60), <1>2
  <2>3. PICK g \in Mine(t) : x = <<t, g>>
    BY ZenonT(60), <2>2
  <2>4. z \in Group(g)
    BY ZenonT(60), <1>4, <2>1, <2>3
  <2>5. PICK k : k = z[2]
    BY ZenonT(60)
  <2>6. z = <<g.pool, k>> /\ k \in Span(g)
    BY ZenonT(60), <2>4, <2>5, GroupIs
  <2>7. Whole(g) /\ \A n \in Span(g) : used[g.pool][n]
    BY ZenonT(60), <1>i DEF OwnCore
  <2>8. g.pool \in Pools /\ k \in Index(g.pool)
    BY <2>6, <2>7 DEF Whole, Reqs
  <2>9. k \in {n \in DOMAIN used[g.pool] : used[g.pool][n]}
    BY ZenonT(60), <1>6, <2>6, <2>7, <2>8
  <2>10. z \in {<<g.pool, n>> : n \in {n \in DOMAIN used[g.pool] : used[g.pool][n]}}
    BY ZenonT(60), <2>6, <2>9
  <2> QED BY ZenonT(60), <2>8, <2>10
<1>8. ASSUME NEW z \in B PROVE z \in A
  <2>1. PICK p \in Pools : z \in {<<p, k>> : k \in {n \in DOMAIN used[p] : used[p][n]}}
    BY ZenonT(60)
  <2>2. PICK k \in DOMAIN used[p] : used[p][k] /\ z = <<p, k>>
    BY ZenonT(60), <2>1
  <2>3. PICK t \in Threads : \E g \in Mine(t) : g.pool = p /\ k \in Span(g)
    <3>1. k \in Index(p) /\ used[p][k]
      BY ZenonT(60), <1>6, <2>2
    <3> QED BY ZenonT(60), <1>i, <3>1 DEF OwnCore
  <2>4. PICK g \in Mine(t) : g.pool = p /\ k \in Span(g)
    BY ZenonT(60), <2>3
  <2>5. z \in Group(g)
    BY ZenonT(60), <2>2, <2>4, GroupIs
  <2>6. <<t, g>> \in Owned /\ z \in Group(<<t, g>>[2])
    BY ZenonT(60), <1>3, <1>4, <2>5
  <2> QED BY ZenonT(60), <2>6
<1>9. A = B
  <2> HIDE DEF A, B
  <2> QED BY ZenonT(60), <1>7, <1>8
<1> QED BY ZenonT(60), <1>1, <1>5, <1>9 DEF PagesOwnedOnce

(* palloc_get_multiple and palloc_free_multiple: no page is given twice, none *)
(* leaks, and the assertion in palloc_free_multiple holds.                   *)
THEOREM PagesAreOwnedOnce ==
    ASSUME Sane
    PROVE  Spec => []PagesOwnedOnce
<1>1. PInv => PagesOwnedOnce
  BY ZenonT(60), OwnedOnce
<1> QED BY <1>1, PoolsAreConsistent, PTL

(* Pages asked to be zeroed hold zeros or what their owner wrote.            *)
THEOREM OwnersSeeOwnData ==
    ASSUME Sane
    PROVE  Spec => []OwnerSeesOwnData
<1>1. PInv => OwnerSeesOwnData
  <2> SUFFICES ASSUME PInv, NEW t \in Threads, NEW g \in held[t], NEW x \in Group(g)
               PROVE  content[x[1]][x[2]]
                        \in {t, IF "PAL_ZERO" \in g.flags THEN "zero" ELSE content[x[1]][x[2]]}
    BY ZenonT(60) DEF OwnerSeesOwnData
  <2>1. x[1] = g.pool /\ x[2] \in Span(g)
    BY ZenonT(60), GroupIs
  <2>2. CASE "PAL_ZERO" \in g.flags
    <3>1. content[g.pool][x[2]] \in {t, "zero"}
      BY ZenonT(60), <2>1, <2>2 DEF PInv, DataInv
    <3> QED BY ZenonT(60), <2>1, <2>2, <3>1
  <2>3. CASE ~("PAL_ZERO" \in g.flags)
    BY ZenonT(60), <2>3
  <2> QED BY <2>2, <2>3
<1> QED BY <1>1, PoolsAreConsistent, PTL
=============================================================================
