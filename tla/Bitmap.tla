------------------------------- MODULE Bitmap -------------------------------
(***************************************************************************)
(* lib/kernel/bitmap.c: an array of bits kept in words of ELEM_BITS bits,  *)
(* with its creation under a failing malloc and its file input and output. *)
(* The variable ideal is the set of indexes that ought to be set.          *)
(***************************************************************************)
EXTENDS Integers, Sequences, FiniteSets, FiniteSetsExt, Bitwise

CONSTANTS
    ELEM_BITS,       \* bits in an elem_type
    MaxBits,         \* largest bitmap
    BITMAP_ERROR, Null

VARIABLES
    b,         \* the bitmap [bit_cnt, bits], or Null
    heap,      \* how many blocks malloc has handed out
    file,      \* the words of the file, written by this program or another
    ideal      \* the bits that ought to be set

vars == <<b, heap, file, ideal>>

Word == 0 .. 2 ^ ELEM_BITS - 1

elem_idx(bit_idx) == bit_idx \div ELEM_BITS
bit_mask(bit_idx) == 2 ^ (bit_idx % ELEM_BITS)
elem_cnt(bit_cnt) == (bit_cnt + ELEM_BITS - 1) \div ELEM_BITS

(* Mutant: a last word that is used in full gets an empty mask.              *)
last_mask_plain(bit_cnt) == 2 ^ (bit_cnt % ELEM_BITS) - 1
last_mask(bit_cnt) ==
    LET last_bits == bit_cnt % ELEM_BITS
    IN  IF last_bits # 0 THEN 2 ^ last_bits - 1 ELSE 2 ^ ELEM_BITS - 1

-----------------------------------------------------------------------------
(* Operations on the words.                                                  *)
bitmap_mark(bits, i) == [bits EXCEPT ![elem_idx(i)] = @ | bit_mask(i)]
bitmap_reset(bits, i) == [bits EXCEPT ![elem_idx(i)] = @ & (2 ^ ELEM_BITS - 1 - bit_mask(i))]

bitmap_flip(bits, i) == [bits EXCEPT ![elem_idx(i)] = @ ^^ bit_mask(i)]

bitmap_set(bits, i, value) == IF value THEN bitmap_mark(bits, i) ELSE bitmap_reset(bits, i)
bitmap_test(bits, i) == (bits[elem_idx(i)] & bit_mask(i)) # 0

bitmap_set_multiple(bits, start, cnt, value) ==
    FoldSet(LAMBDA i, w : bitmap_set(w, i, value), bits, start .. start + cnt - 1)
bitmap_set_all(bits, bit_cnt, value) == bitmap_set_multiple(bits, 0, bit_cnt, value)

bitmap_count(bits, start, cnt, value) ==
    Cardinality({i \in start .. start + cnt - 1 : bitmap_test(bits, i) = value})
bitmap_contains(bits, start, cnt, value) ==
    \E i \in start .. start + cnt - 1 : bitmap_test(bits, i) = value
bitmap_any(bits, start, cnt) == bitmap_contains(bits, start, cnt, TRUE)
bitmap_none(bits, start, cnt) == ~bitmap_contains(bits, start, cnt, TRUE)
bitmap_all(bits, start, cnt) == ~bitmap_contains(bits, start, cnt, FALSE)

(* Mutant: the last possible start is not tried.                             *)
bitmap_scan_short(m, start, cnt, value) ==
    LET last == m.bit_cnt - cnt
        hits == {i \in start .. last - 1 : ~bitmap_contains(m.bits, i, cnt, ~value)}
    IN  IF cnt <= m.bit_cnt /\ hits # {} THEN Min(hits) ELSE BITMAP_ERROR

bitmap_scan(m, start, cnt, value) ==
    LET last == m.bit_cnt - cnt
        hits == {i \in start .. last : ~bitmap_contains(m.bits, i, cnt, ~value)}
    IN  IF cnt <= m.bit_cnt /\ hits # {} THEN Min(hits) ELSE BITMAP_ERROR

(* bitmap_scan_and_flip: the bitmap and the value returned.                  *)
bitmap_scan_and_flip(m, start, cnt, value) ==
    LET idx == bitmap_scan(m, start, cnt, value)
    IN  [bits |-> IF idx = BITMAP_ERROR THEN m.bits ELSE bitmap_set_multiple(m.bits, idx, cnt, ~value),
         idx |-> idx]

-----------------------------------------------------------------------------
Init ==
    /\ b = Null /\ heap = 0 /\ ideal = {}
    /\ file \in UNION {[0 .. n - 1 -> {0, 2 ^ ELEM_BITS - 1}] : n \in 0 .. elem_cnt(MaxBits)}

(* Fresh storage holds anything.                                             *)
Storage(bit_cnt) == [0 .. elem_cnt(bit_cnt) - 1 -> {0, 2 ^ ELEM_BITS - 1}]

(* Mutant: the descriptor is forgotten when there is no room for the bits.   *)
bitmap_create_leaks(bit_cnt, first_ok, second_ok) ==
    /\ b = Null
    /\ \/ /\ first_ok /\ (second_ok \/ bit_cnt = 0)
          /\ \E s \in Storage(bit_cnt) : b' = [bit_cnt |-> bit_cnt, bits |-> bitmap_set_all(s, bit_cnt, FALSE)]
          /\ heap' = IF bit_cnt = 0 THEN heap + 1 ELSE heap + 2
       \/ first_ok /\ ~second_ok /\ bit_cnt # 0 /\ heap' = heap + 1 /\ b' = Null
       \/ ~first_ok /\ UNCHANGED <<b, heap>>
    /\ ideal' = {}
    /\ UNCHANGED file

(* bitmap_create, when its first and its second malloc succeed or fail;      *)
(* malloc (0) is a null pointer.  bitmap_create_in_buf fills the words alike.*)
bitmap_create(bit_cnt, first_ok, second_ok) ==
    /\ b = Null
    /\ \/ /\ first_ok /\ (second_ok \/ bit_cnt = 0)
          /\ \E s \in Storage(bit_cnt) : b' = [bit_cnt |-> bit_cnt, bits |-> bitmap_set_all(s, bit_cnt, FALSE)]
          /\ heap' = IF bit_cnt = 0 THEN heap + 1 ELSE heap + 2
       \/ ~(first_ok /\ (second_ok \/ bit_cnt = 0)) /\ UNCHANGED <<b, heap>>
    /\ ideal' = {}
    /\ UNCHANGED file

bitmap_destroy ==
    /\ b # Null
    /\ heap' = IF b.bit_cnt = 0 THEN heap - 1 ELSE heap - 2
    /\ b' = Null /\ ideal' = {}
    /\ UNCHANGED file

Change(bits, set) ==
    /\ b' = [b EXCEPT !.bits = bits]
    /\ ideal' = set
    /\ UNCHANGED <<heap, file>>

Update ==
    /\ b # Null
    /\ \/ \E i \in 0 .. b.bit_cnt - 1 :
            \/ Change(bitmap_set(b.bits, i, TRUE), ideal \cup {i})
            \/ Change(bitmap_set(b.bits, i, FALSE), ideal \ {i})
            \/ Change(bitmap_flip(b.bits, i), SymDiff(ideal, {i}))
       \/ Change(bitmap_set_all(b.bits, b.bit_cnt, TRUE), 0 .. b.bit_cnt - 1)
       \/ Change(bitmap_set_all(b.bits, b.bit_cnt, FALSE), {})
       \/ \E start \in 0 .. b.bit_cnt : \E cnt \in 0 .. b.bit_cnt - start :
            LET r == bitmap_scan_and_flip(b, start, cnt, FALSE)
            IN  Change(r.bits, IF r.idx = BITMAP_ERROR THEN ideal ELSE ideal \cup r.idx .. r.idx + cnt - 1)

bitmap_write ==
    /\ b # Null
    /\ DOMAIN file = DOMAIN b.bits
    /\ file' = b.bits
    /\ UNCHANGED <<b, heap, ideal>>

(* bitmap_read: a shorter file fills the first words and reports failure;    *)
(* the unused bits of the last word are cleared in either case.              *)
bitmap_read ==
    /\ b # Null /\ b.bit_cnt > 0
    /\ LET last == elem_cnt(b.bit_cnt) - 1
           got  == [w \in DOMAIN b.bits |-> IF w \in DOMAIN file THEN file[w] ELSE b.bits[w]]
           bits == [got EXCEPT ![last] = @ & last_mask(b.bit_cnt)]
       IN  Change(bits, {i \in 0 .. b.bit_cnt - 1 : bitmap_test(got, i)})

Next ==
    \/ \E n \in 0 .. MaxBits, one, two \in BOOLEAN : bitmap_create(n, one, two)
    \/ bitmap_destroy \/ Update \/ bitmap_write \/ bitmap_read

Spec == Init /\ [][Next]_vars

-----------------------------------------------------------------------------
(* The words hold exactly the bits that were set, across every operation and *)
(* across a file of any length: no operation on one bit disturbs another,    *)
(* and the mask bitmap_read puts over the last word costs no bit in use.     *)
WordsHoldTheBits ==
    b # Null => \A i \in 0 .. b.bit_cnt - 1 : bitmap_test(b.bits, i) <=> i \in ideal

(* bitmap_scan finds the first run of cnt equal bits at or after start, and  *)
(* reports BITMAP_ERROR exactly when there is none; the counting and testing *)
(* functions agree with it.                                                  *)
ScanFindsFirstRun ==
    b # Null => \A start \in 0 .. b.bit_cnt, cnt \in 0 .. MaxBits + 1, v \in BOOLEAN :
        LET Run(i) == \A k \in i .. i + cnt - 1 : k < b.bit_cnt /\ ((k \in ideal) = v)
            idx == bitmap_scan(b, start, cnt, v)
        IN  /\ idx = BITMAP_ERROR <=> ~\E i \in start .. b.bit_cnt : i + cnt <= b.bit_cnt /\ Run(i)
            /\ idx # BITMAP_ERROR =>
                 /\ idx >= start /\ Run(idx) /\ \A i \in start .. idx - 1 : ~Run(i)
                 /\ bitmap_count(b.bits, idx, cnt, v) = cnt
                 /\ IF v THEN bitmap_all(b.bits, idx, cnt) ELSE bitmap_none(b.bits, idx, cnt)
                 /\ bitmap_any(b.bits, idx, cnt) = (cnt > 0 /\ v)

(* bitmap_create and bitmap_destroy leave no block behind, whichever of the  *)
(* two allocations fails.                                                    *)
BitmapNoLeak == heap = (IF b = Null THEN 0 ELSE IF b.bit_cnt = 0 THEN 1 ELSE 2)

(* bitmap.c:289, of bitmap_scan_and_flip: "If CNT is zero, returns 0."       *)
(* The code does not keep it: README.md, "Disagreements".                    *)
EmptyScanReturnsZero ==
    b # Null => \A start \in 0 .. b.bit_cnt, v \in BOOLEAN : bitmap_scan_and_flip(b, start, 0, v).idx = 0
=============================================================================
