-------------------------------- MODULE Hash --------------------------------
(***************************************************************************)
(* lib/kernel/hash.c: a chained hash table whose bucket array follows the  *)
(* number of elements when malloc has the memory for another one.  A       *)
(* bucket is a sequence of elements (List has the links); an element has a *)
(* key, equal keys compare equal, and a table is used by one caller at a   *)
(* time.  The code's least number of buckets (4) and ideal load (2) are    *)
(* constants so that small tables grow and shrink.                         *)
(***************************************************************************)
EXTENDS Integers, Sequences, SequencesExt, FiniteSets, Bitwise

CONSTANTS
    Elems,              \* elements: a key and a number that tells equal ones apart
    HashFunctions,      \* functions from keys to hash values
    MinBuckets,         \* 4 in the code; a power of 2
    BEST_ELEMS_PER_BUCKET,
    Null

Key(e) == e[1]
Keys == {Key(e) : e \in Elems}

VARIABLES
    alive,               \* the table is initialised
    hash,                \* the hash function given to hash_init
    buckets, elem_cnt,
    arrays,              \* bucket arrays allocated and not freed
    starved,             \* the last rehash found no memory
    iter,                \* an iterator: [bucket, elem, seen], or Null
    table                \* the map the table stands for

vars == <<alive, hash, buckets, elem_cnt, arrays, starved, iter, table>>

Empty(n) == [i \in 1 .. n |-> <<>>]
NoTable == [k \in Keys |-> Null]

Init ==
    /\ alive = FALSE /\ hash \in HashFunctions
    /\ buckets = <<>> /\ elem_cnt = 0 /\ arrays = 0 /\ starved = FALSE
    /\ iter = Null /\ table = NoTable

-----------------------------------------------------------------------------
(* find_bucket, find_elem, insert_elem and remove_elem on a bucket array.    *)
find_bucket(bs, e) == (hash[Key(e)] & (Len(bs) - 1)) + 1
find_elem(bs, e) ==
    LET b == bs[find_bucket(bs, e)]
        hits == {i \in DOMAIN b : Key(b[i]) = Key(e)}
    IN  IF hits = {} THEN Null ELSE b[CHOOSE i \in hits : \A j \in hits : i <= j]
insert_elem(bs, e) == [bs EXCEPT ![find_bucket(bs, e)] = <<e>> \o @]
remove_elem(bs, e) == [bs EXCEPT ![find_bucket(bs, e)] = SelectSeq(@, LAMBDA x : x # e)]

turn_off_least_1bit(x) == x & (x - 1)
is_power_of_2(x) == x # 0 /\ turn_off_least_1bit(x) = 0
RECURSIVE PowerBelow(_)
PowerBelow(n) == IF is_power_of_2(n) THEN n ELSE PowerBelow(turn_off_least_1bit(n))
(* Mutant: the number of buckets is not made a power of 2.                   *)
NewBucketCnt_any(cnt) ==
    LET want == cnt \div BEST_ELEMS_PER_BUCKET
    IN  IF want < MinBuckets THEN MinBuckets ELSE want

NewBucketCnt(cnt) ==
    LET want == cnt \div BEST_ELEMS_PER_BUCKET
    IN  PowerBelow(IF want < MinBuckets THEN MinBuckets ELSE want)

(* Mutant: elements go where the old number of buckets would put them.       *)
Moved_old(bs, n) ==
    FoldLeft(LAMBDA new, e : [new EXCEPT ![((find_bucket(bs, e) - 1) % n) + 1] = <<e>> \o @], Empty(n), FlattenSeq(bs))

(* rehash: the ideal number of buckets, a new array, every element moved to  *)
(* the front of its new bucket, bucket by bucket, the old array freed.       *)
Moved(bs, n) == FoldLeft(LAMBDA new, e : insert_elem(new, e), Empty(n), FlattenSeq(bs))

rehash(bs, cnt) ==
    LET n == NewBucketCnt(cnt) IN
    \/ n = Len(bs) /\ buckets' = bs /\ starved' = FALSE
    \/ n # Len(bs) /\ buckets' = Moved(bs, n) /\ starved' = FALSE
    \/ n # Len(bs) /\ buckets' = bs /\ starved' = TRUE          \* malloc failed

-----------------------------------------------------------------------------
hash_init ==
    /\ ~alive /\ arrays = 0
    /\ alive' = TRUE /\ arrays' = 1
    /\ buckets' = Empty(MinBuckets) /\ elem_cnt' = 0
    /\ iter' = Null /\ table' = NoTable /\ starved' = FALSE
    /\ UNCHANGED hash

(* Modifying the table invalidates its iterators.                            *)
hash_insert(e) ==
    /\ alive
    /\ LET old == find_elem(buckets, e) IN
         /\ elem_cnt' = elem_cnt + (IF old = Null THEN 1 ELSE 0)
         /\ rehash(IF old = Null THEN insert_elem(buckets, e) ELSE buckets, elem_cnt')
         /\ table' = IF old = Null THEN [table EXCEPT ![Key(e)] = e] ELSE table
    /\ iter' = Null
    /\ UNCHANGED <<alive, hash, arrays>>

hash_replace(e) ==
    /\ alive
    /\ LET old == find_elem(buckets, e) IN
         /\ elem_cnt' = elem_cnt + (IF old = Null THEN 1 ELSE 0)
         /\ rehash(insert_elem(IF old = Null THEN buckets ELSE remove_elem(buckets, old), e), elem_cnt')
    /\ table' = [table EXCEPT ![Key(e)] = e]
    /\ iter' = Null
    /\ UNCHANGED <<alive, hash, arrays>>

hash_delete(e) ==
    /\ alive
    /\ LET found == find_elem(buckets, e) IN
         /\ found # Null
         /\ elem_cnt' = elem_cnt - 1
         /\ rehash(remove_elem(buckets, found), elem_cnt')
    /\ table' = [table EXCEPT ![Key(e)] = Null]
    /\ iter' = Null
    /\ UNCHANGED <<alive, hash, arrays>>

(* hash_clear keeps the array, hash_destroy frees it.                        *)
hash_clear ==
    /\ alive
    /\ buckets' = Empty(Len(buckets)) /\ elem_cnt' = 0
    /\ table' = NoTable /\ iter' = Null
    /\ UNCHANGED <<alive, hash, arrays, starved>>

hash_destroy ==
    /\ alive
    /\ alive' = FALSE /\ arrays' = arrays - 1
    /\ buckets' = <<>> /\ elem_cnt' = 0 /\ table' = NoTable /\ iter' = Null /\ starved' = FALSE
    /\ UNCHANGED hash

-----------------------------------------------------------------------------
(* The iterator stands before the first element of its bucket at index 0.    *)
hash_first ==
    /\ alive /\ iter = Null
    /\ iter' = [bucket |-> 1, elem |-> 0, seen |-> <<>>, end |-> FALSE]
    /\ UNCHANGED <<alive, hash, buckets, elem_cnt, arrays, starved, table>>

(* Mutant: only one empty bucket is skipped.                                 *)
hash_next_one ==
    /\ alive /\ iter # Null /\ ~iter.end
    /\ IF iter.elem + 1 <= Len(buckets[iter.bucket])
       THEN iter' = [iter EXCEPT !.elem = @ + 1, !.seen = Append(@, buckets[iter.bucket][iter.elem + 1])]
       ELSE IF iter.bucket + 1 <= Len(buckets) /\ buckets[iter.bucket + 1] # <<>>
            THEN iter' = [iter EXCEPT !.bucket = @ + 1, !.elem = 1, !.seen = Append(@, buckets[iter.bucket + 1][1])]
            ELSE iter' = [iter EXCEPT !.end = TRUE]
    /\ UNCHANGED <<alive, hash, buckets, elem_cnt, arrays, starved, table>>

(* hash_next: the next element of the bucket, or the first of the next       *)
(* bucket that has one, or the end.                                          *)
hash_next ==
    /\ alive /\ iter # Null /\ ~iter.end
    /\ LET later == {b \in iter.bucket + 1 .. Len(buckets) : buckets[b] # <<>>}
           first == CHOOSE b \in later : \A c \in later : b <= c
       IN  iter' = IF iter.elem + 1 <= Len(buckets[iter.bucket])
                   THEN [iter EXCEPT !.elem = @ + 1, !.seen = Append(@, buckets[iter.bucket][iter.elem + 1])]
                   ELSE IF later # {}
                   THEN [iter EXCEPT !.bucket = first, !.elem = 1, !.seen = Append(@, buckets[first][1])]
                   ELSE [iter EXCEPT !.end = TRUE]
    /\ UNCHANGED <<alive, hash, buckets, elem_cnt, arrays, starved, table>>

Next ==
    \/ hash_init \/ hash_clear \/ hash_destroy \/ hash_first \/ hash_next
    \/ \E e \in Elems : hash_insert(e) \/ hash_replace(e) \/ hash_delete(e)

Spec == Init /\ [][Next]_vars

-----------------------------------------------------------------------------
(* hash_find, whatever rehash did or failed to do before: every element that *)
(* was inserted or has replaced another is found under its key, no other is, *)
(* and elem_cnt is their number.                                             *)
FindsWhatIsThere ==
    alive => /\ \A e \in Elems : find_elem(buckets, e) = table[Key(e)]
             /\ elem_cnt = Cardinality({k \in Keys : table[k] # Null})
             /\ Len(FlattenSeq(buckets)) = elem_cnt

(* rehash: the number of buckets is a power of 2, as find_bucket's mask      *)
(* needs, and unless memory was missing or the table has been cleared since  *)
(* it is the largest one that gives every bucket its share.                  *)
BucketsFollowElements ==
    alive => LET n == Len(buckets)
                 want == elem_cnt \div BEST_ELEMS_PER_BUCKET
             IN  /\ \E i \in 0 .. 5 : n = 2 ^ i
                 /\ n >= MinBuckets
                 /\ (~starved /\ elem_cnt > 0) => (n = MinBuckets /\ want < 2 * n) \/ (n <= want /\ want < 2 * n)

(* hash_first and hash_next: an iteration that nothing disturbs returns each *)
(* element once, skipping the empty buckets.                                 *)
IterationVisitsAll ==
    (alive /\ iter # Null /\ iter.end)
        => /\ Range(iter.seen) = {table[k] : k \in {x \in Keys : table[x] # Null}}
           /\ Len(iter.seen) = elem_cnt
=============================================================================
