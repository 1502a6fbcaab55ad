-------------------------------- MODULE List --------------------------------
(***************************************************************************)
(* lib/kernel/list.c seen from its callers: a `struct list' is the         *)
(* sequence of its interior elements, head first.  The operators below are *)
(* the list operations the scheduler and the synchronisation code use;     *)
(* they are functions of sequences, free of recursion.                     *)
(***************************************************************************)
EXTENDS Integers, Sequences

(* The elements linked into list s. *)
Elems(s) == {s[i] : i \in 1..Len(s)}

(* No element is linked twice into s. *)
NoDup(s) == \A i, j \in 1..Len(s) : s[i] = s[j] => i = j

(* The first n elements of s, and what is left when they are popped. *)
Popped(s, n) == SubSeq(s, 1, n)
Rest(s, n) == SubSeq(s, n + 1, Len(s))

(* The least of a set of numbers. *)
Least(S) == CHOOSE x \in S : \A y \in S : x <= y

(* list_insert_ordered stops at the first element e with less(elem, e) and  *)
(* inserts before it; when there is none it has reached the tail.  bigger is *)
(* the set of those e.                                                       *)
InsertPos(s, bigger) == Least({i \in 1..Len(s) : s[i] \in bigger} \cup {Len(s) + 1})

list_insert_ordered(s, elem, bigger) ==
    LET p == InsertPos(s, bigger)
    IN  Popped(s, p - 1) \o <<elem>> \o Rest(s, p - 1)
=============================================================================
