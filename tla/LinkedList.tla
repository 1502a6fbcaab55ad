----------------------------- MODULE LinkedList -----------------------------
(***************************************************************************)
(* lib/kernel/list.c itself: doubly linked lists with a head and a tail    *)
(* element each, as the next and prev pointers of all elements.  Module    *)
(* List is what its callers see; here the pointers are moved assignment by *)
(* assignment and compared with the sequences they stand for.              *)
(***************************************************************************)
EXTENDS Integers, Sequences, SequencesExt, FiniteSets

CONSTANTS
    Elems,          \* list elements
    Val,            \* what LESS compares: a function on Elems
    Lists,
    Null

head(l) == <<"head", l>>
tail(l) == <<"tail", l>>
Elem(e) == <<"elem", e>>
Nodes == {head(l) : l \in Lists} \cup {tail(l) : l \in Lists} \cup {Elem(e) : e \in Elems}
less(a, b) == Val[a[2]] < Val[b[2]]

VARIABLES
    k,       \* the pointers: [n, p], functions from Nodes to Nodes or Null
    spec     \* the sequences: Lists -> sequences of nodes

vars == <<k, spec>>

(* list_init of every list; elements are in no list.                         *)
Init ==
    /\ k = [n |-> [x \in Nodes |-> IF x[1] = "head" THEN tail(x[2]) ELSE Null],
            p |-> [x \in Nodes |-> IF x[1] = "tail" THEN head(x[2]) ELSE Null]]
    /\ spec = [l \in Lists |-> <<>>]

-----------------------------------------------------------------------------
(* The operations on pointers, in the order of their assignments.            *)
SetNext(c, x, y) == [c EXCEPT !.n[x] = y]
SetPrev(c, x, y) == [c EXCEPT !.p[x] = y]

list_insert(c, before, e) ==
    LET c1 == SetPrev(c, e, c.p[before])
        c2 == SetNext(c1, e, before)
        c3 == SetNext(c2, c2.p[before], e)
    IN  SetPrev(c3, before, e)

(* The pointers of a removed element are never read again: Null.             *)
list_remove(c, e) ==
    LET c1 == SetNext(c, c.p[e], c.n[e])
        c2 == SetPrev(c1, c1.n[e], c1.p[e])
    IN  SetPrev(SetNext(c2, e, Null), e, Null)

(* Mutant: what follows the range keeps its old back pointer.                *)
list_splice_forward(c, before, first, end) ==
    IF first = end THEN c
    ELSE LET last == c.p[end]
             c1 == SetNext(c, c.p[first], c.n[last])
             c3 == SetPrev(c1, first, c1.p[before])
             c4 == SetNext(c3, last, before)
             c5 == SetNext(c4, c4.p[before], first)
         IN  SetPrev(c5, before, last)

list_splice(c, before, first, end) ==
    IF first = end THEN c
    ELSE LET last == c.p[end]
             c1 == SetNext(c, c.p[first], c.n[last])
             c2 == SetPrev(c1, c1.n[last], c1.p[first])
             c3 == SetPrev(c2, first, c2.p[before])
             c4 == SetNext(c3, last, before)
             c5 == SetNext(c4, c4.p[before], first)
         IN  SetPrev(c5, before, last)

RECURSIVE SwapAll(_, _, _)
SwapAll(c, e, end) ==
    IF e = end THEN c
    ELSE LET c1 == SetNext(SetPrev(c, e, c.n[e]), e, c.p[e]) IN SwapAll(c1, c1.p[e], end)
list_reverse(c, l) ==
    IF c.n[head(l)] = tail(l) THEN c
    ELSE LET c1 == SwapAll(c, c.n[head(l)], tail(l))
             c2 == SetPrev(SetNext(c1, head(l), c1.p[tail(l)]), tail(l), c1.n[head(l)])
             first == c2.n[head(l)]
             last == c2.p[tail(l)]
         IN  SetNext(SetPrev(c2, first, c2.n[last]), last, c2.p[first])

(* list_sort: passes that merge adjacent runs until one run is left.         *)
RECURSIVE find_end_of_run(_, _, _)
find_end_of_run(c, a, b) ==
    LET x == c.n[a] IN IF x # b /\ ~less(x, c.p[x]) THEN find_end_of_run(c, x, b) ELSE x

(* Mutant: of equal elements the one of the second run goes first.           *)
KeepsFirst_equal(a0, b0) == less(a0, b0)
KeepsFirst(a0, b0) == ~less(b0, a0)
RECURSIVE inplace_merge(_, _, _, _)
inplace_merge(c, a0, a1b0, b1) ==
    IF a0 = a1b0 \/ a1b0 = b1 THEN c
    ELSE IF KeepsFirst(a0, a1b0) THEN inplace_merge(c, c.n[a0], a1b0, b1)
    ELSE LET x == c.n[a1b0] IN inplace_merge(list_splice(c, a0, c.p[x], x), a0, x, b1)

RECURSIVE Pass(_, _, _, _)
Pass(c, a0, end, runs) ==
    IF a0 = end THEN [c |-> c, runs |-> runs]
    ELSE LET a1b0 == find_end_of_run(c, a0, end) IN
         IF a1b0 = end THEN [c |-> c, runs |-> runs + 1]
         ELSE LET b1 == find_end_of_run(c, a1b0, end)
              IN  Pass(inplace_merge(c, a0, a1b0, b1), b1, end, runs + 1)
RECURSIVE list_sort(_, _)
list_sort(c, l) ==
    LET r == Pass(c, c.n[head(l)], tail(l), 0) IN IF r.runs > 1 THEN list_sort(r.c, l) ELSE r.c

RECURSIVE FirstBigger(_, _, _, _)
FirstBigger(c, x, e, end) == IF x = end \/ less(e, x) THEN x ELSE FirstBigger(c, c.n[x], e, end)
list_insert_ordered(c, l, e) == list_insert(c, FirstBigger(c, c.n[head(l)], e, tail(l)), e)

(* list_unique; the duplicates go to another list, or to none (Null).        *)
RECURSIVE UniqueFrom(_, _, _, _)
UniqueFrom(c, e, l, dups) ==
    LET x == c.n[e] IN
    IF x = tail(l) THEN c
    ELSE IF ~less(e, x) /\ ~less(x, e)
         THEN LET c1 == list_remove(c, x) IN
              UniqueFrom(IF dups = Null THEN c1 ELSE list_insert(c1, tail(dups), x), e, l, dups)
         ELSE UniqueFrom(c, x, l, dups)
list_unique(c, l, dups) == IF c.n[head(l)] = tail(l) THEN c ELSE UniqueFrom(c, c.n[head(l)], l, dups)

(* Mutant: of several maxima the last is returned.                           *)
RECURSIVE MaxFrom_last(_, _, _, _)
MaxFrom_last(c, m, x, end) ==
    IF x = end THEN m ELSE MaxFrom_last(c, IF ~less(x, m) THEN x ELSE m, c.n[x], end)

RECURSIVE MaxFrom(_, _, _, _)
MaxFrom(c, m, x, end) == IF x = end THEN m ELSE MaxFrom(c, IF less(m, x) THEN x ELSE m, c.n[x], end)
list_max(c, l) == LET b == c.n[head(l)] IN IF b = tail(l) THEN b ELSE MaxFrom(c, b, c.n[b], tail(l))
RECURSIVE MinFrom(_, _, _, _)
MinFrom(c, m, x, end) == IF x = end THEN m ELSE MinFrom(c, IF less(x, m) THEN x ELSE m, c.n[x], end)
list_min(c, l) == LET b == c.n[head(l)] IN IF b = tail(l) THEN b ELSE MinFrom(c, b, c.n[b], tail(l))

-----------------------------------------------------------------------------
(* The same operations on sequences.                                         *)
Loose == {Elem(e) : e \in Elems} \ UNION {Range(spec[l]) : l \in Lists}
Position(s, x) == CHOOSE i \in 1 .. Len(s) + 1 : i = Len(s) + 1 \/ s[i] = x
Cut(s, i, j) == SubSeq(s, i, j - 1)
Before(s, i, new) == SubSeq(s, 1, i - 1) \o new \o SubSeq(s, i, Len(s))
Without(s, i, j) == SubSeq(s, 1, i - 1) \o SubSeq(s, j, Len(s))
Rank(s, i) == Cardinality({j \in DOMAIN s : less(s[j], s[i]) \/ (~less(s[i], s[j]) /\ j <= i)})
StableSort(s) == [r \in DOMAIN s |-> s[CHOOSE i \in DOMAIN s : Rank(s, i) = r]]
Equal(a, b) == ~less(a, b) /\ ~less(b, a)
Firsts(s) == {i \in DOMAIN s : i = 1 \/ ~Equal(s[i - 1], s[i])}
Pick(s, keep) ==
    [r \in 1 .. Cardinality(keep) |-> s[CHOOSE i \in keep : Cardinality({j \in keep : j <= i}) = r]]
Node(l, i) == IF i = Len(spec[l]) + 1 THEN tail(l) ELSE spec[l][i]

Inserted(l, i, e) ==
    /\ e \in Loose
    /\ k' = list_insert(k, Node(l, i), e)
    /\ spec' = [spec EXCEPT ![l] = Before(@, i, <<e>>)]

Removed(l, i) ==
    /\ k' = list_remove(k, spec[l][i])
    /\ spec' = [spec EXCEPT ![l] = Without(@, i, i + 1)]

(* The range i .. j - 1 of list l before position b of another list, or of   *)
(* the same list: BEFORE may be END, but is not in the range.                *)
Spliced(l, i, j, m, b) ==
    /\ k' = list_splice(k, Node(m, b), Node(l, i), Node(l, j))
    /\ LET range == Cut(spec[l], i, j) IN
       spec' = IF l # m
               THEN [spec EXCEPT ![l] = Without(@, i, j), ![m] = Before(@, b, range)]
               ELSE [spec EXCEPT ![l] = IF b < i THEN Before(Without(@, i, j), b, range)
                                        ELSE Before(Without(@, i, j), b - (j - i), range)]

Reversed(l) == k' = list_reverse(k, l) /\ spec' = [spec EXCEPT ![l] = Reverse(@)]
Sorted(l) == k' = list_sort(k, l) /\ spec' = [spec EXCEPT ![l] = StableSort(@)]

InsertOrdered(l, e) ==
    /\ e \in Loose /\ spec[l] = StableSort(spec[l])
    /\ k' = list_insert_ordered(k, l, e)
    /\ spec' = [spec EXCEPT ![l] = StableSort(Append(@, e))]

Unique(l, dups) ==
    /\ k' = list_unique(k, l, dups)
    /\ LET s == spec[l]
           removed == Pick(s, DOMAIN s \ Firsts(s))
       IN  spec' = [m \in Lists |-> IF m = l THEN Pick(s, Firsts(s))
                                   ELSE IF m = dups THEN spec[m] \o removed ELSE spec[m]]

Next ==
    \E l \in Lists :
       \/ \E i \in 1 .. Len(spec[l]) + 1, e \in Loose : Inserted(l, i, e)
       \/ \E i \in 1 .. Len(spec[l]) : Removed(l, i)
       \/ \E i, j \in 1 .. Len(spec[l]) + 1, m \in Lists : \E b \in 1 .. Len(spec[m]) + 1 :
            i <= j /\ (l = m => b \notin i .. j - 1) /\ Spliced(l, i, j, m, b)
       \/ Reversed(l) \/ Sorted(l)
       \/ \E e \in Loose : InsertOrdered(l, e)
       \/ \E m \in ({Null} \cup Lists) \ {l} : Unique(l, m)

Spec == Init /\ [][Next]_vars

-----------------------------------------------------------------------------
RECURSIVE Follow(_, _, _)
Follow(f, x, n) == IF n = 0 \/ x \notin Nodes \/ x[1] # "elem" THEN <<>> ELSE <<x>> \o Follow(f, f[x], n - 1)
Bound == Cardinality(Nodes)

(* The pointers of every list, followed from its head to its tail, are what  *)
(* the operations should have made of it: list_insert, list_remove,          *)
(* list_splice within and between lists, list_reverse, the stable            *)
(* list_sort, list_insert_ordered after equals, and list_unique.             *)
NextFollowsSpec == \A l \in Lists : Follow(k.n, k.n[head(l)], Bound) = spec[l]

(* And followed from its tail to its head they are the same list backwards,  *)
(* with the sentinels in place.                                              *)
PrevMirrorsNext ==
    \A l \in Lists :
        /\ Follow(k.p, k.p[tail(l)], Bound) = Reverse(Follow(k.n, k.n[head(l)], Bound))
        /\ k.p[head(l)] = Null /\ k.n[tail(l)] = Null
        /\ \A x \in {head(l)} \cup Range(spec[l]) : k.p[k.n[x]] = x

(* list_max and list_min: "If there is more than one ..., returns the one    *)
(* that appears earlier in the list.  If the list is empty, returns its      *)
(* tail."                                                                    *)
FirstExtremes ==
    \A l \in Lists : LET s == spec[l] IN
        IF s = <<>> THEN list_max(k, l) = tail(l) /\ list_min(k, l) = tail(l)
        ELSE /\ list_max(k, l) = s[CHOOSE i \in DOMAIN s : \A j \in DOMAIN s :
                                       ~less(s[i], s[j]) /\ (j < i => less(s[j], s[i]))]
             /\ list_min(k, l) = s[CHOOSE i \in DOMAIN s : \A j \in DOMAIN s :
                                       ~less(s[j], s[i]) /\ (j < i => less(s[i], s[j]))]
=============================================================================
