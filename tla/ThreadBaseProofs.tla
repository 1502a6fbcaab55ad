-------------------------- MODULE ThreadBaseProofs --------------------------
(***************************************************************************)
(* What the list operations do to the elements of a list, what the context *)
(* switch and thread_sleep do with the lists of module Thread, and how the *)
(* pieces of a step rearrange the threads on them.  Then its inductive     *)
(* invariant IInv (locks, pages, tids, boot): the initial states, what a   *)
(* step must leave alone for each part of the invariant, and every step.   *)
(***************************************************************************)
EXTENDS Thread, TLAPS

(* A list has a length, and positions up to it (list_size, list_begin).     *)
LEMMA SeqLen ==
    ASSUME NEW S, NEW s \in Seq(S)
    PROVE  Len(s) \in Nat /\ s \in [1..Len(s) -> S] /\ DOMAIN s = 1..Len(s)
OBVIOUS

(* What is at a position of a list is an element of it (list_entry).        *)
LEMMA SeqElem ==
    ASSUME NEW S, NEW s \in Seq(S), NEW n \in 1..Len(s)
    PROVE  s[n] \in S
OBVIOUS

(* The list list_init makes is the only one without elements (list_empty).  *)
LEMMA SeqEmpty ==
    ASSUME NEW S
    PROVE  /\ <<>> \in Seq(S) /\ Len(<<>>) = 0
           /\ \A s \in Seq(S) : s # <<>> => Len(s) \in Nat \ {0}
OBVIOUS

(* list_push_back leaves every element where it is, and puts one behind.    *)
LEMMA SeqAppend ==
    ASSUME NEW S, NEW s \in Seq(S), NEW e \in S
    PROVE  /\ Append(s, e) \in Seq(S) /\ Append(s, e) # <<>>
           /\ Len(Append(s, e)) = Len(s) + 1
           /\ \A i \in 1..Len(s) : Append(s, e)[i] = s[i]
           /\ Append(s, e)[Len(s) + 1] = e
<1>1. Append(s, e) \in Seq(S) /\ Len(Append(s, e)) = Len(s) + 1 /\ Len(s) \in Nat
  OBVIOUS
<1>2. Append(s, e) # <<>>
  BY <1>1, SeqEmpty
<1>3. ASSUME NEW i \in 1..Len(s) PROVE Append(s, e)[i] = s[i]
  OBVIOUS
<1>4. Append(s, e)[Len(s) + 1] = e
  OBVIOUS
<1> QED BY <1>1, <1>2, <1>3, <1>4

(* list_pop_front takes the first element, and the others move up.          *)
LEMMA SeqHeadTail ==
    ASSUME NEW S, NEW s \in Seq(S), s # <<>>
    PROVE  /\ Head(s) \in S /\ Tail(s) \in Seq(S)
           /\ Len(Tail(s)) = Len(s) - 1
           /\ \A i \in 1..Len(Tail(s)) : Tail(s)[i] = s[i + 1]
OBVIOUS

(* A list behind another: push_back of each of its elements in turn.        *)
LEMMA SeqConcat ==
    ASSUME NEW S, NEW s \in Seq(S), NEW u \in Seq(S)
    PROVE  /\ s \o u \in Seq(S) /\ Len(s \o u) = Len(s) + Len(u)
           /\ \A i \in 1..(Len(s) + Len(u)) :
                (s \o u)[i] = IF i <= Len(s) THEN s[i] ELSE u[i - Len(s)]
OBVIOUS

(* A run of consecutive elements of a list.                                 *)
LEMMA SeqSub ==
    ASSUME NEW S, NEW s, NEW m \in Int, NEW n \in Int, \A i \in m..n : s[i] \in S
    PROVE  /\ SubSeq(s, m, n) \in Seq(S)
           /\ Len(SubSeq(s, m, n)) = IF m <= n THEN n - m + 1 ELSE 0
           /\ \A i \in 1..(n - m + 1) : SubSeq(s, m, n)[i] = s[m + i - 1]
OBVIOUS

(* Lists with the same elements at the same positions are the same list.    *)
LEMMA SeqSame ==
    ASSUME NEW S, NEW s \in Seq(S), NEW u \in Seq(S),
           Len(s) = Len(u), \A i \in 1..Len(s) : s[i] = u[i]
    PROVE  s = u
OBVIOUS

(* Every set of natural numbers has a least element.  ThreadProofs proves   *)
(* it from well-founded induction; until then it is a premise, which keeps  *)
(* the library's theorems out of sight where they are not needed.           *)
HaveMinima == \A S \in SUBSET Nat : S # {} => \E x \in S : \A y \in S : x <= y

(* The least element that is known to be one is the Least of the set.         *)
LEMMA MinIsLeast ==
    ASSUME NEW S, NEW x \in S, \A y \in S : x <= y
    PROVE  /\ Least(S) \in S
           /\ \A n \in S : Least(S) <= n
BY ZenonT(60) DEF Least

(* Least of a set of numbers (bitmap_scan's result, list_insert_ordered's     *)
(* position, the number of sleepers thread_wakeup pops).                    *)
LEMMA MinExists ==
    ASSUME HaveMinima, NEW S, S \subseteq Nat, S # {}
    PROVE  /\ Least(S) \in S
           /\ \A n \in S : Least(S) <= n
<1>1. PICK x \in S : \A y \in S : x <= y
  BY ZenonT(60) DEF HaveMinima
<1> QED BY ZenonT(60), <1>1, MinIsLeast

(* Least of two numbers: as many waiters are woken as there are pages to free *)
(* and threads that wait (do_schedule).                                     *)
LEMMA MinOfTwo ==
    ASSUME NEW m \in Nat, NEW n \in Nat
    PROVE  Least({m, n}) \in 0..n
<1>1. PICK x \in {m, n} : \A y \in {m, n} : x <= y
  BY m <= n \/ n <= m
<1>2. PICK k \in {m, n} : k = Least({m, n}) /\ k <= n
  BY ZenonT(60), <1>1, MinIsLeast
<1>3. k \in 0..n
  BY <1>2
<1> QED BY ZenonT(60), <1>2, <1>3

(* The elements of the empty list, and of a list with one element.         *)
LEMMA ElemsEmpty == Elems(<<>>) = {} /\ NoDup(<<>>)
BY DEF Elems, NoDup

(* The arithmetic of a queue of at most one page and of the next tid.        *)
LEMMA Counting == 0 <= 1 /\ 1 <= 1 /\ \A n \in Nat : n + 1 \in Nat
OBVIOUS

(* A list of one element, as schedule() leaves the destruction queue.       *)
LEMMA ElemsOne == ASSUME NEW e PROVE Elems(<<e>>) = {e}
BY DEF Elems

(* The elements of a list of threads (or pages) are threads (or pages).     *)
LEMMA ElemsSubset ==
    ASSUME NEW S, NEW s \in Seq(S)
    PROVE  Elems(s) \subseteq S
BY DEF Elems

(* list_pop_front splits a list into its first element and the rest.        *)
LEMMA ElemsNonempty ==
    ASSUME NEW S, NEW s \in Seq(S), s # <<>>
    PROVE  /\ Head(s) \in Elems(s)
           /\ Head(s) \in S
           /\ Elems(s) = {Head(s)} \cup Elems(Tail(s))
<1>1. Len(s) \in Nat \ {0}
  BY SeqEmpty
<1>2. Head(s) = s[1] /\ Head(s) \in S
  BY <1>1
<1>3. Tail(s) \in Seq(S) /\ Len(Tail(s)) = Len(s) - 1
      /\ \A i \in 1..Len(Tail(s)) : Tail(s)[i] = s[i + 1]
  BY SeqHeadTail
<1>4. ASSUME NEW e \in Elems(s) PROVE e \in {Head(s)} \cup Elems(Tail(s))
  <2>1. PICK i \in 1..Len(s) : e = s[i]
    BY DEF Elems
  <2>2. CASE i = 1
    BY <2>1, <2>2, <1>2
  <2>3. CASE i # 1
    <3>1. i - 1 \in 1..Len(Tail(s)) /\ Tail(s)[i - 1] = s[i]
      BY <2>3, <1>1, <1>3
    <3> QED BY <3>1, <2>1 DEF Elems
  <2> QED BY <2>2, <2>3
<1>5. ASSUME NEW e \in Elems(Tail(s)) PROVE e \in Elems(s)
  <2>1. PICK i \in 1..Len(Tail(s)) : e = Tail(s)[i]
    BY DEF Elems
  <2>2. i + 1 \in 1..Len(s) /\ e = s[i + 1]
    BY <2>1, <1>1, <1>3
  <2> QED BY <2>2 DEF Elems
<1>6. Head(s) \in Elems(s)
  BY <1>1, <1>2 DEF Elems
<1> QED BY <1>2, <1>4, <1>5, <1>6

(* list_push_back. *)
LEMMA ElemsAppend ==
    ASSUME NEW S, NEW s \in Seq(S), NEW e \in S
    PROVE  /\ Append(s, e) \in Seq(S)
           /\ Append(s, e) # <<>>
           /\ Elems(Append(s, e)) = Elems(s) \cup {e}
<1>1. /\ Append(s, e) \in Seq(S) /\ Append(s, e) # <<>>
      /\ Len(Append(s, e)) = Len(s) + 1 /\ Len(s) \in Nat
      /\ \A i \in 1..Len(s) : Append(s, e)[i] = s[i]
      /\ Append(s, e)[Len(s) + 1] = e
  BY SeqAppend, SeqLen
<1>2. 1..Len(Append(s, e)) = 1..Len(s) \cup {Len(s) + 1}
  BY <1>1
<1>3. Elems(Append(s, e)) = Elems(s) \cup {e}
  BY <1>1, <1>2 DEF Elems
<1> QED BY <1>1, <1>3

(* The same, element by element.                                             *)
LEMMA AppendElems ==
    ASSUME NEW S, NEW s \in Seq(S), NEW e \in S
    PROVE  /\ Append(s, e) \in Seq(S) /\ Append(s, e) # <<>>
           /\ \A x : x \in Elems(Append(s, e)) <=> x \in Elems(s) \/ x = e
<1>1. /\ Append(s, e) \in Seq(S) /\ Append(s, e) # <<>>
      /\ Elems(Append(s, e)) = Elems(s) \cup {e}
  BY ElemsAppend
<1> QED BY ZenonT(60), <1>1

(* Splicing one list behind another. *)
LEMMA ElemsConcat ==
    ASSUME NEW S, NEW s \in Seq(S), NEW r \in Seq(S)
    PROVE  /\ s \o r \in Seq(S)
           /\ Elems(s \o r) = Elems(s) \cup Elems(r)
           /\ s # <<>> => s \o r # <<>>
<1>1. /\ s \o r \in Seq(S) /\ Len(s \o r) = Len(s) + Len(r)
      /\ Len(s) \in Nat /\ Len(r) \in Nat
      /\ \A i \in 1..(Len(s) + Len(r)) :
           (s \o r)[i] = IF i <= Len(s) THEN s[i] ELSE r[i - Len(s)]
  BY SeqConcat, SeqLen
<1>2. ASSUME NEW e \in Elems(s \o r) PROVE e \in Elems(s) \cup Elems(r)
  <2>1. PICK i \in 1..(Len(s) + Len(r)) : e = (s \o r)[i]
    BY <1>1 DEF Elems
  <2>2. CASE i <= Len(s)
    BY <2>1, <2>2, <1>1 DEF Elems
  <2>3. CASE ~ (i <= Len(s))
    <3>1. i - Len(s) \in 1..Len(r) /\ e = r[i - Len(s)]
      BY <2>1, <2>3, <1>1
    <3> QED BY <3>1 DEF Elems
  <2> QED BY <2>2, <2>3
<1>3. ASSUME NEW e \in Elems(s) PROVE e \in Elems(s \o r)
  <2>1. PICK i \in 1..Len(s) : e = s[i]
    BY DEF Elems
  <2>2. i \in 1..Len(s \o r) /\ e = (s \o r)[i]
    BY <2>1, <1>1
  <2> QED BY <2>2 DEF Elems
<1>4. ASSUME NEW e \in Elems(r) PROVE e \in Elems(s \o r)
  <2>1. PICK i \in 1..Len(r) : e = r[i]
    BY DEF Elems
  <2>2. i + Len(s) \in 1..Len(s \o r) /\ e = (s \o r)[i + Len(s)]
    BY <2>1, <1>1
  <2> QED BY <2>2 DEF Elems
<1>5. s # <<>> => s \o r # <<>>
  BY <1>1, SeqEmpty
<1> QED BY <1>1, <1>2, <1>3, <1>4, <1>5

(* The same, element by element.                                             *)
LEMMA ConcatElems ==
    ASSUME NEW S, NEW s \in Seq(S), NEW r \in Seq(S)
    PROVE  /\ s \o r \in Seq(S)
           /\ \A e : e \in Elems(s \o r) <=> e \in Elems(s) \/ e \in Elems(r)
<1>1. s \o r \in Seq(S) /\ Elems(s \o r) = Elems(s) \cup Elems(r)
  BY ElemsConcat
<1> QED BY ZenonT(60), <1>1

(* Popping n elements leaves two lists with the old one's elements. *)
LEMMA ElemsPopped ==
    ASSUME NEW S, NEW s \in Seq(S), NEW n \in 0..Len(s)
    PROVE  /\ Popped(s, n) \in Seq(S) /\ Len(Popped(s, n)) = n
           /\ Rest(s, n) \in Seq(S) /\ Len(Rest(s, n)) = Len(s) - n
           /\ \A i \in 1..n : Popped(s, n)[i] = s[i]
           /\ \A i \in 1..(Len(s) - n) : Rest(s, n)[i] = s[n + i]
           /\ Elems(s) = Elems(Popped(s, n)) \cup Elems(Rest(s, n))
<1>1. Len(s) \in Nat /\ \A i \in 1..Len(s) : s[i] \in S
  BY SeqLen, SeqElem
<1>2. /\ Popped(s, n) \in Seq(S) /\ Len(Popped(s, n)) = n
      /\ \A i \in 1..n : Popped(s, n)[i] = s[i]
  <2>1. \A i \in 1..n : s[i] \in S
    BY <1>1
  <2>2. n \in Int
    BY <1>1
  <2> QED BY <2>1, <2>2, <1>1, SeqSub DEF Popped
<1>3. /\ Rest(s, n) \in Seq(S) /\ Len(Rest(s, n)) = Len(s) - n
      /\ \A i \in 1..(Len(s) - n) : Rest(s, n)[i] = s[n + i]
  <2>1. \A i \in (n + 1)..Len(s) : s[i] \in S
    BY <1>1
  <2>2. n + 1 \in Int /\ Len(s) \in Int
    BY <1>1
  <2>3. /\ SubSeq(s, n + 1, Len(s)) \in Seq(S)
        /\ Len(SubSeq(s, n + 1, Len(s))) = IF n + 1 <= Len(s) THEN Len(s) - (n + 1) + 1 ELSE 0
        /\ \A i \in 1..(Len(s) - (n + 1) + 1) :
             SubSeq(s, n + 1, Len(s))[i] = s[(n + 1) + i - 1]
    BY <2>1, <2>2, SeqSub
  <2> QED BY <2>3, <1>1 DEF Rest
<1>4. ASSUME NEW e \in Elems(s) PROVE e \in Elems(Popped(s, n)) \cup Elems(Rest(s, n))
  <2>1. PICK i \in 1..Len(s) : e = s[i]
    BY DEF Elems
  <2>2. CASE i <= n
    <3>1. i \in 1..Len(Popped(s, n)) /\ e = Popped(s, n)[i]
      BY <2>1, <2>2, <1>1, <1>2
    <3> QED BY <3>1 DEF Elems
  <2>3. CASE ~ (i <= n)
    <3>1. i - n \in 1..Len(Rest(s, n)) /\ e = Rest(s, n)[i - n]
      BY <2>1, <2>3, <1>1, <1>3
    <3> QED BY <3>1 DEF Elems
  <2> QED BY <2>2, <2>3
<1>5. ASSUME NEW e \in Elems(Popped(s, n)) PROVE e \in Elems(s)
  <2>1. PICK i \in 1..n : e = Popped(s, n)[i]
    BY <1>2 DEF Elems
  <2>2. i \in 1..Len(s) /\ e = s[i]
    BY <2>1, <1>1, <1>2
  <2> QED BY <2>2 DEF Elems
<1>6. ASSUME NEW e \in Elems(Rest(s, n)) PROVE e \in Elems(s)
  <2>1. PICK i \in 1..(Len(s) - n) : e = Rest(s, n)[i]
    BY <1>3 DEF Elems
  <2>2. n + i \in 1..Len(s) /\ e = s[n + i]
    BY <2>1, <1>1, <1>3
  <2> QED BY <2>2 DEF Elems
<1> QED BY <1>2, <1>3, <1>4, <1>5, <1>6

(* What is popped off a list was on it.                                      *)
LEMMA PoppedElems ==
    ASSUME NEW S, NEW s \in Seq(S), NEW n \in 0..Len(s)
    PROVE  Popped(s, n) \in Seq(S) /\ Elems(Popped(s, n)) \subseteq Elems(s)
<1>1. Popped(s, n) \in Seq(S) /\ Elems(s) = Elems(Popped(s, n)) \cup Elems(Rest(s, n))
  BY ElemsPopped
<1> QED BY ZenonT(60), <1>1

(* r is s with e inserted at position p (list_insert).                      *)
InsertedAt(r, s, e, p) ==
    /\ Len(r) = Len(s) + 1
    /\ \A i \in 1..(Len(s) + 1) :
         r[i] = IF i < p THEN s[i] ELSE IF i = p THEN e ELSE s[i - 1]

(* list_insert before position p. *)
LEMMA ElemsInsert ==
    ASSUME NEW S, NEW s \in Seq(S), NEW e \in S, NEW p \in 1..(Len(s) + 1)
    PROVE  LET r == Popped(s, p - 1) \o <<e>> \o Rest(s, p - 1)
           IN  /\ r \in Seq(S)
               /\ Len(r) = Len(s) + 1
               /\ Elems(r) = Elems(s) \cup {e}
               /\ InsertedAt(r, s, e, p)
<1> DEFINE a == Popped(s, p - 1)
           b == Rest(s, p - 1)
           ae == a \o <<e>>
<1>0. Len(s) \in Nat /\ p - 1 \in 0..Len(s)
  BY SeqLen
<1>1. /\ a \in Seq(S) /\ Len(a) = p - 1 /\ b \in Seq(S) /\ Len(b) = Len(s) - (p - 1)
      /\ \A i \in 1..(p - 1) : a[i] = s[i]
      /\ \A i \in 1..(Len(s) - (p - 1)) : b[i] = s[(p - 1) + i]
      /\ Elems(s) = Elems(a) \cup Elems(b)
  <2>1. PICK q \in 0..Len(s) : q = p - 1
    BY <1>0
  <2>2. /\ Popped(s, q) \in Seq(S) /\ Len(Popped(s, q)) = q
        /\ Rest(s, q) \in Seq(S) /\ Len(Rest(s, q)) = Len(s) - q
        /\ \A i \in 1..q : Popped(s, q)[i] = s[i]
        /\ \A i \in 1..(Len(s) - q) : Rest(s, q)[i] = s[q + i]
        /\ Elems(s) = Elems(Popped(s, q)) \cup Elems(Rest(s, q))
    BY ElemsPopped
  <2> QED BY <2>1, <2>2
<1> HIDE DEF a, b
<1>2. <<e>> \in Seq(S) /\ Len(<<e>>) = 1 /\ <<e>>[1] = e
  OBVIOUS
<1>3. /\ ae \in Seq(S) /\ Len(ae) = p /\ Elems(ae) = Elems(a) \cup {e}
      /\ \A i \in 1..p : ae[i] = IF i < p THEN a[i] ELSE e
  <2>1. ae \in Seq(S) /\ Elems(ae) = Elems(a) \cup {e}
    <3> DEFINE one == <<e>>
    <3>1. one \in Seq(S) /\ Elems(one) = {e} /\ ae = a \o one
      BY <1>2, ElemsOne
    <3> HIDE DEF one, ae
    <3>2. a \o one \in Seq(S) /\ Elems(a \o one) = Elems(a) \cup Elems(one)
      BY <1>1, <3>1, ElemsConcat
    <3> QED BY <3>1, <3>2
  <2>2. /\ Len(ae) = Len(a) + 1
        /\ \A i \in 1..(Len(a) + 1) : ae[i] = IF i <= Len(a) THEN a[i] ELSE <<e>>[i - Len(a)]
    BY <1>1, <1>2, SeqConcat
  <2>3. Len(ae) = p
    BY <2>2, <1>0, <1>1
  <2>4. ASSUME NEW i \in 1..p
        PROVE  ae[i] = IF i < p THEN a[i] ELSE e
    BY <2>2, <1>0, <1>1, <1>2
  <2> QED BY Zenon, <2>1, <2>3, <2>4
<1> HIDE DEF ae
<1>4. /\ ae \o b \in Seq(S)
      /\ Elems(ae \o b) = Elems(ae) \cup Elems(b)
      /\ Len(ae \o b) = Len(ae) + Len(b)
      /\ \A i \in 1..(Len(ae) + Len(b)) :
           (ae \o b)[i] = IF i <= Len(ae) THEN ae[i] ELSE b[i - Len(ae)]
  <2>1. ae \o b \in Seq(S) /\ Elems(ae \o b) = Elems(ae) \cup Elems(b)
    BY <1>1, <1>3, ElemsConcat
  <2>2. /\ Len(ae \o b) = Len(ae) + Len(b)
        /\ \A i \in 1..(Len(ae) + Len(b)) :
             (ae \o b)[i] = IF i <= Len(ae) THEN ae[i] ELSE b[i - Len(ae)]
    BY ZenonT(60), <1>1, <1>3, SeqConcat
  <2> QED BY <2>1, <2>2
<1>5. Len(ae \o b) = Len(s) + 1
  <2>1. Len(ae \o b) = p + Len(b)
    BY ZenonT(60), <1>3, <1>4
  <2>2. p + Len(b) = Len(s) + 1
    BY <1>0, <1>1
  <2> QED BY ZenonT(60), <2>1, <2>2
<1>6. ASSUME NEW i \in 1..(Len(s) + 1)
      PROVE  (ae \o b)[i] = IF i < p THEN s[i] ELSE IF i = p THEN e ELSE s[i - 1]
  <2>0. (ae \o b)[i] = IF i <= p THEN ae[i] ELSE b[i - p]
    <3>1. i \in 1..(Len(ae) + Len(b))
      BY <1>0, <1>1, <1>3
    <3> QED BY ZenonT(60), <3>1, <1>3, <1>4
  <2>1. CASE i < p
    <3>1. i <= p /\ i \in 1..p /\ i \in 1..(p - 1)
      BY <2>1, <1>0
    <3>2. ae[i] = a[i] /\ a[i] = s[i]
      BY ZenonT(60), <2>1, <3>1, <1>1, <1>3
    <3> QED BY ZenonT(60), <2>0, <2>1, <3>1, <3>2
  <2>2. CASE i = p
    <3>1. i <= p /\ i \in 1..p /\ ~ (i < p)
      BY <2>2, <1>0
    <3>2. ae[i] = e
      BY ZenonT(60), <3>1, <1>3
    <3> QED BY ZenonT(60), <2>0, <2>2, <3>1, <3>2
  <2>3. CASE i > p
    <3>1. (ae \o b)[i] = b[i - p]
      BY <2>0, <2>3, <1>0
    <3>2. i - p \in 1..(Len(s) - (p - 1)) /\ (p - 1) + (i - p) = i - 1
      BY <2>3, <1>0
    <3>3. b[i - p] = s[i - 1]
      BY <3>2, <1>1
    <3> QED BY <3>1, <3>3, <2>3, <1>0
  <2>4. i < p \/ i = p \/ i > p
    BY <1>0
  <2> QED BY Zenon, <2>1, <2>2, <2>3, <2>4
<1>7. Elems(ae \o b) = Elems(s) \cup {e}
  BY <1>1, <1>3, <1>4
<1>8. ae \o b = Popped(s, p - 1) \o <<e>> \o Rest(s, p - 1)
  BY DEF ae, a, b
<1>9. InsertedAt(ae \o b, s, e, p)
  BY ZenonT(60), <1>5, <1>6 DEF InsertedAt
<1> QED BY ZenonT(60), <1>4, <1>5, <1>7, <1>8, <1>9

(* list_insert moves what comes after the new element one position on.      *)
LEMMA InsertAt ==
    ASSUME NEW S, NEW s \in Seq(S), NEW e \in S, NEW p \in 1..(Len(s) + 1),
           NEW r, r = Popped(s, p - 1) \o <<e>> \o Rest(s, p - 1)
    PROVE  InsertedAt(r, s, e, p)
BY ZenonT(60), ElemsInsert

(* Pushing an element in front of a list.                                  *)
LEMMA ConsFacts ==
    ASSUME NEW S, NEW s \in Seq(S), NEW e \in S
    PROVE  /\ <<e>> \o s \in Seq(S)
           /\ <<e>> \o s # <<>>
           /\ Head(<<e>> \o s) = e
           /\ Tail(<<e>> \o s) = s
           /\ Elems(<<e>> \o s) = {e} \cup Elems(s)
<1> DEFINE one == <<e>>
           c == one \o s
<1>1. one \in Seq(S) /\ one # <<>> /\ Len(one) = 1 /\ one[1] = e /\ Elems(one) = {e}
  BY ElemsOne
<1> HIDE DEF one
<1>2. c \in Seq(S) /\ c # <<>> /\ Elems(c) = {e} \cup Elems(s)
  BY <1>1, ElemsConcat
<1>3. PICK n \in Nat : n = Len(s)
  BY SeqLen
<1>4. /\ Len(c) = Len(one) + Len(s)
      /\ \A i \in 1..(Len(one) + Len(s)) :
           c[i] = IF i <= Len(one) THEN one[i] ELSE s[i - Len(one)]
  BY Zenon, <1>1, SeqConcat
<1>5. Len(c) = n + 1 /\ \A i \in 1..(n + 1) : c[i] = IF i <= 1 THEN e ELSE s[i - 1]
  BY <1>1, <1>3, <1>4
<1>6. /\ Head(c) = c[1] /\ Tail(c) \in Seq(S) /\ Len(Tail(c)) = Len(c) - 1
      /\ \A i \in 1..Len(Tail(c)) : Tail(c)[i] = c[i + 1]
  <2> HIDE DEF c
  <2> QED BY <1>2, SeqHeadTail
<1>7. Head(c) = e
  BY <1>3, <1>5, <1>6
<1>8. Tail(c) = s
  <2>1. Len(Tail(c)) = n
    BY <1>3, <1>5, <1>6
  <2>2. ASSUME NEW i \in 1..n PROVE Tail(c)[i] = s[i]
    <3>1. i + 1 \in 1..(n + 1) /\ ~ (i + 1 <= 1) /\ (i + 1) - 1 = i
      BY <1>3
    <3>2. c[i + 1] = s[i]
      BY <3>1, <1>5
    <3> QED BY <3>2, <2>1, <1>6
  <2> HIDE DEF c
  <2> QED BY <2>1, <2>2, <1>3, <1>6, SeqSame
<1> QED BY <1>2, <1>7, <1>8 DEF one

-----------------------------------------------------------------------------
(* Lists in which every element is linked once.                            *)

(* A member of a list has a position.                                      *)
LEMMA ElemsPosition ==
    ASSUME NEW s, NEW e
    PROVE  e \in Elems(s) <=> \E i \in 1..Len(s) : e = s[i]
BY Zenon DEF Elems

(* list_push_back of an element that is not yet linked.                    *)
LEMMA NoDupAppend ==
    ASSUME NEW S, NEW s \in Seq(S), NEW e \in S, NoDup(s), e \notin Elems(s)
    PROVE  NoDup(Append(s, e))
<1>1. PICK n \in Nat : n = Len(s)
  BY SeqLen
<1>2. /\ Len(Append(s, e)) = n + 1
      /\ \A i \in 1..n : Append(s, e)[i] = s[i]
      /\ Append(s, e)[n + 1] = e
  BY <1>1, SeqAppend
<1>3. \A i \in 1..n : s[i] # e
  BY <1>1, ElemsPosition
<1>4. \A i, j \in 1..n : s[i] = s[j] => i = j
  BY <1>1 DEF NoDup
<1>5. ASSUME NEW i \in 1..(n + 1), NEW j \in 1..(n + 1), Append(s, e)[i] = Append(s, e)[j]
      PROVE  i = j
  <2>1. (i \in 1..n \/ i = n + 1) /\ (j \in 1..n \/ j = n + 1)
    OBVIOUS
  <2> QED BY Zenon, <2>1, <1>2, <1>3, <1>4, <1>5
<1> QED BY Zenon, <1>2, <1>5 DEF NoDup

(* Splicing a list behind one it shares nothing with.                      *)
LEMMA NoDupConcat ==
    ASSUME NEW S, NEW s \in Seq(S), NEW r \in Seq(S), NoDup(s), NoDup(r),
           Elems(s) \cap Elems(r) = {}
    PROVE  NoDup(s \o r)
<1>1. PICK n \in Nat, m \in Nat : n = Len(s) /\ m = Len(r)
  BY SeqLen
<1>2. PICK q : /\ q = s \o r /\ Len(q) = n + m
               /\ \A i \in 1..(n + m) : q[i] = IF i <= n THEN s[i] ELSE r[i - n]
  <2>1. \A i \in 1..(Len(s) + Len(r)) :
           (s \o r)[i] = IF i <= Len(s) THEN s[i] ELSE r[i - Len(s)]
    BY ZenonT(60), SeqConcat
  <2>2. Len(s \o r) = Len(s) + Len(r)
    BY ZenonT(60), SeqConcat
  <2> QED BY ZenonT(60), <2>1, <2>2, <1>1
<1>3. ASSUME NEW i \in 1..(n + m), NEW j \in 1..(n + m), q[i] = q[j]
      PROVE  i = j
  <2>0. \A a \in 1..n, b \in 1..m : s[a] # r[b]
    BY ZenonT(60), <1>1, ElemsPosition
  <2>1. CASE i <= n /\ j <= n
    BY <1>1, <1>2, <1>3, <2>1 DEF NoDup
  <2>2. CASE i <= n /\ ~ (j <= n)
    <3>0. i \in 1..n /\ j - n \in 1..m
      BY <2>2
    <3>1. s[i] = r[j - n]
      BY ZenonT(60), <1>2, <1>3, <2>2
    <3> QED BY <3>0, <3>1, <2>0
  <2>3. CASE ~ (i <= n) /\ j <= n
    <3>0. j \in 1..n /\ i - n \in 1..m
      BY <2>3
    <3>1. s[j] = r[i - n]
      BY ZenonT(60), <1>2, <1>3, <2>3
    <3> QED BY <3>0, <3>1, <2>0
  <2>4. CASE ~ (i <= n) /\ ~ (j <= n)
    <3>0. i - n \in 1..m /\ j - n \in 1..m
      BY <2>4
    <3>1. r[i - n] = r[j - n]
      BY ZenonT(60), <1>2, <1>3, <2>4
    <3>2. i - n = j - n
      BY ZenonT(60), <3>0, <3>1, <1>1 DEF NoDup
    <3> QED BY <3>2
  <2> QED BY Zenon, <2>1, <2>2, <2>3, <2>4
<1> QED BY Zenon, <1>2, <1>3 DEF NoDup

(* Popping n elements: the popped ones and the rest share nothing.          *)
LEMMA NoDupPopped ==
    ASSUME NEW S, NEW s \in Seq(S), NEW n \in 0..Len(s), NoDup(s)
    PROVE  /\ NoDup(Popped(s, n)) /\ NoDup(Rest(s, n))
           /\ Elems(Rest(s, n)) = Elems(s) \ Elems(Popped(s, n))
<1>1. PICK m \in Nat : m = Len(s)
  BY SeqLen
<1> DEFINE a == Popped(s, n)
           b == Rest(s, n)
<1>2. /\ Len(a) = n /\ Len(b) = m - n /\ n \in 0..m
      /\ \A i \in 1..n : a[i] = s[i]
      /\ \A i \in 1..(m - n) : b[i] = s[n + i]
      /\ Elems(s) = Elems(a) \cup Elems(b)
  <2>1. /\ Len(a) = n /\ Len(b) = Len(s) - n
        /\ \A i \in 1..n : a[i] = s[i]
        /\ \A i \in 1..(Len(s) - n) : b[i] = s[n + i]
        /\ Elems(s) = Elems(a) \cup Elems(b)
    BY ElemsPopped
  <2> HIDE DEF a, b
  <2> QED BY <1>1, <2>1
<1>3. \A i, j \in 1..m : s[i] = s[j] => i = j
  BY <1>1 DEF NoDup
<1> HIDE DEF a, b
<1>4. NoDup(a)
  BY <1>2, <1>3 DEF NoDup
<1>5. NoDup(b)
  <2>1. ASSUME NEW i \in 1..(m - n), NEW j \in 1..(m - n), b[i] = b[j] PROVE i = j
    <3>1. n + i \in 1..m /\ n + j \in 1..m /\ s[n + i] = s[n + j]
      BY <1>1, <1>2, <2>1
    <3>2. n + i = n + j
      BY <3>1, <1>3
    <3> QED BY <3>2, <1>2
  <2> QED BY Zenon, <2>1, <1>2 DEF NoDup
<1>6. ASSUME NEW e \in Elems(b), e \in Elems(a) PROVE FALSE
  <2>1. PICK i \in 1..n : e = a[i]
    BY <1>2, <1>6 DEF Elems
  <2>2. PICK j \in 1..(m - n) : e = b[j]
    BY <1>2, <1>6 DEF Elems
  <2>3. i \in 1..m /\ n + j \in 1..m /\ s[i] = s[n + j] /\ i # n + j
    <3>1. a[i] = s[i] /\ b[j] = s[n + j]
      BY Zenon, <1>2
    <3>2. s[i] = s[n + j]
      BY Zenon, <3>1, <2>1, <2>2
    <3>3. i \in 1..m /\ n + j \in 1..m /\ i # n + j
      BY <1>1
    <3> QED BY <3>2, <3>3
  <2> QED BY <2>3, <1>3
<1>7. Elems(b) = Elems(s) \ Elems(a)
  BY Zenon, <1>2, <1>6
<1> QED BY <1>4, <1>5, <1>7 DEF a, b

(* list_pop_front.                                                         *)
LEMMA NoDupTail ==
    ASSUME NEW S, NEW s \in Seq(S), s # <<>>, NoDup(s)
    PROVE  /\ NoDup(Tail(s)) /\ Tail(s) \in Seq(S)
           /\ Elems(Tail(s)) = Elems(s) \ {Head(s)}
<1>1. PICK n \in Nat : n = Len(s) /\ n # 0
  BY SeqEmpty, SeqLen
<1>2. /\ Tail(s) \in Seq(S) /\ Len(Tail(s)) = n - 1 /\ Head(s) = s[1]
      /\ \A i \in 1..(n - 1) : Tail(s)[i] = s[i + 1]
  BY <1>1, SeqHeadTail
<1>3. \A i, j \in 1..n : s[i] = s[j] => i = j
  BY <1>1 DEF NoDup
<1>4. ASSUME NEW i \in 1..(n - 1), NEW j \in 1..(n - 1), Tail(s)[i] = Tail(s)[j] PROVE i = j
  <2>1. i + 1 \in 1..n /\ j + 1 \in 1..n /\ s[i + 1] = s[j + 1]
    BY <1>1, <1>2, <1>4
  <2>2. i + 1 = j + 1
    BY <2>1, <1>3
  <2> QED BY <2>2
<1>5. NoDup(Tail(s))
  BY Zenon, <1>2, <1>4 DEF NoDup
<1>6. Head(s) \notin Elems(Tail(s))
  <2>1. ASSUME NEW i \in 1..(n - 1), Tail(s)[i] = s[1] PROVE FALSE
    <3>1. i + 1 \in 1..n /\ 1 \in 1..n /\ s[i + 1] = s[1] /\ i + 1 # 1
      BY <1>1, <1>2, <2>1
    <3> QED BY <3>1, <1>3
  <2> QED BY <2>1, <1>2 DEF Elems
<1>7. Elems(s) = {Head(s)} \cup Elems(Tail(s))
  BY ElemsNonempty
<1> QED BY Zenon, <1>2, <1>5, <1>6, <1>7

(* list_insert before position p of an element that is not yet linked.      *)
LEMMA NoDupInsert ==
    ASSUME NEW S, NEW s \in Seq(S), NEW e \in S, NEW p \in 1..(Len(s) + 1),
           NoDup(s), e \notin Elems(s)
    PROVE  NoDup(Popped(s, p - 1) \o <<e>> \o Rest(s, p - 1))
<1>1. PICK n \in 0..Len(s) : n = p - 1
  BY SeqLen
<1> DEFINE a == Popped(s, n)
           b == Rest(s, n)
           one == <<e>>
<1>2. /\ a \in Seq(S) /\ b \in Seq(S) /\ NoDup(a) /\ NoDup(b)
      /\ Elems(s) = Elems(a) \cup Elems(b)
      /\ Elems(b) = Elems(s) \ Elems(a)
  <2>1. /\ a \in Seq(S) /\ b \in Seq(S) /\ Elems(s) = Elems(a) \cup Elems(b)
    BY ElemsPopped
  <2>2. NoDup(a) /\ NoDup(b) /\ Elems(b) = Elems(s) \ Elems(a)
    BY NoDupPopped
  <2> QED BY <2>1, <2>2
<1>3. one \in Seq(S) /\ Elems(one) = {e} /\ NoDup(one)
  BY ElemsOne DEF NoDup
<1> HIDE DEF a, b, one
<1>4. a \o one \in Seq(S) /\ Elems(a \o one) = Elems(a) \cup {e} /\ NoDup(a \o one)
  <2>1. Elems(a) \cap Elems(one) = {}
    BY Zenon, <1>2, <1>3
  <2>2. a \o one \in Seq(S) /\ Elems(a \o one) = Elems(a) \cup Elems(one)
    BY <1>2, <1>3, ElemsConcat
  <2>3. NoDup(a \o one)
    BY <2>1, <1>2, <1>3, NoDupConcat
  <2> QED BY <2>2, <2>3, <1>3
<1>5. NoDup((a \o one) \o b)
  <2>1. Elems(a \o one) \cap Elems(b) = {}
    BY Zenon, <1>2, <1>4
  <2> QED BY ZenonT(60), <2>1, <1>2, <1>4, NoDupConcat
<1>6. (a \o one) \o b = Popped(s, p - 1) \o <<e>> \o Rest(s, p - 1)
  BY <1>1 DEF a, b, one
<1> QED BY <1>5, <1>6

-----------------------------------------------------------------------------
(* The pool, the context switch and the sleep list of module Thread.        *)

(* Only the control point and locals of thread me change.                *)
OthersSame(me) ==
    \A t \in Threads : t # me =>
       pc'[t] = pc[t] /\ lk'[t] = lk[t] /\ page'[t] = page[t] /\ val'[t] = val[t]

(* The initial thread's page lies outside the kernel pool, and the pool      *)
(* has a page for thread_start to give to the idle thread.                   *)
LEMMA PoolFacts ==
    /\ Pool \subseteq Nat /\ 0 \notin Pool /\ NULL \notin Threads
    /\ Main \in Threads /\ Main \notin Pool /\ Pool \subseteq Threads
    /\ 1 \in Pool
    /\ \A t \in Threads : t # Main => t \in Pool
BY ThreadAssumption DEF Pool, Threads, Main, NULL

(* schedule() runs a thread, and keeps everybody else who was on the run   *)
(* queue there; it queues a page only when its thread is dying.            *)
LEMMA ScheduleFacts ==
    ASSUME TypeOK,
           NEW st \in [Threads -> Statuses], NEW ready \in Seq(Threads),
           NEW req \in Seq(Pool),
           schedule(st, ready, req),
           ready # <<>> \/ idle_thread # NULL
    PROVE  /\ current' \in Threads
           /\ status' \in [Threads -> Statuses]
           /\ ready_list' \in Seq(Threads)
           /\ thread_ticks' \in 0..(TIME_SLICE - 1)
           /\ destruction_req' \in Seq(Pool)
           /\ Elems(ready) \subseteq {current'} \cup Elems(ready_list')
           /\ \/ destruction_req' = req
              \/ /\ destruction_req' = Append(req, current)
                 /\ st[current] = "DYING" /\ current \in Pool
<1> DEFINE next == next_thread_to_run(ready)
<1>1. next \in Threads /\ (ready # <<>> => next = Head(ready))
  BY ElemsNonempty DEF next_thread_to_run, TypeOK
<1>2. current' = next /\ status' = [st EXCEPT ![next] = "RUNNING"]
      /\ thread_ticks' = 0
      /\ ready_list' = IF ready = <<>> THEN <<>> ELSE Tail(ready)
  BY DEF schedule
<1>3. status' \in [Threads -> Statuses]
  BY <1>1, <1>2 DEF Statuses
<1>4. ready_list' \in Seq(Threads)
  BY <1>2, SeqHeadTail, SeqEmpty
<1>5. Elems(ready) \subseteq {current'} \cup Elems(ready_list')
  BY <1>1, <1>2, ElemsEmpty, ElemsNonempty
<1>6. \/ destruction_req' = req
      \/ /\ destruction_req' = Append(req, current)
         /\ st[current] = "DYING" /\ current \in Pool
  BY PoolFacts DEF schedule, TypeOK
<1>7. destruction_req' \in Seq(Pool)
  BY <1>6, ElemsAppend
<1>8. thread_ticks' \in 0..(TIME_SLICE - 1)
  BY <1>2, ThreadAssumption
<1> QED BY <1>1, <1>2, <1>3, <1>4, <1>5, <1>6, <1>7, <1>8

(* thread_block, called by a thread that is not the idle thread at its      *)
(* first steps: somebody else can run, and no page changes hands.           *)
LEMMA BlockFacts ==
    ASSUME IInv, Running, thread_block,
           pc[current] \notin {"boot", "idle_init"}
    PROVE  /\ current' \in Threads
           /\ status' \in [Threads -> Statuses]
           /\ ready_list' \in Seq(Threads)
           /\ thread_ticks' \in 0..(TIME_SLICE - 1)
           /\ destruction_req' = destruction_req
           /\ Elems(ready_list) \subseteq {current'} \cup Elems(ready_list')
<1>1. TypeOK /\ BootInv
  BY DEF IInv
<1>2. pc[Main] # "boot"
  BY <1>1 DEF BootInv
<1>3. ready_list # <<>> \/ idle_thread # NULL
  BY <1>1, <1>2, ElemsEmpty DEF BootInv
<1> DEFINE st == [status EXCEPT ![current] = "BLOCKED"]
<1>4. st \in [Threads -> Statuses] /\ st[current] = "BLOCKED"
  BY <1>1 DEF TypeOK, Statuses
<1>5. schedule(st, ready_list, destruction_req)
  BY DEF thread_block
<1>6. ready_list \in Seq(Threads) /\ destruction_req \in Seq(Pool)
  BY <1>1 DEF TypeOK
<1> HIDE DEF st
<1> QED BY <1>1, <1>3, <1>4, <1>5, <1>6, ScheduleFacts

(* thread_sleep: the insertion position is inside the list, and the thread  *)
(* blocks.                                                                  *)
LEMMA SleepInsert ==
    ASSUME HaveMinima, TypeOK, NEW a \in Int
    PROVE  LET Bigger == {t \in Threads : a <= alarm[t]}
               p == InsertPos(sleep_list, Bigger)
           IN  /\ p \in 1..(Len(sleep_list) + 1)
               /\ \A i \in 1..Len(sleep_list) :
                    /\ i < p => alarm[sleep_list[i]] < a
                    /\ i = p => a <= alarm[sleep_list[i]]
<1> DEFINE S == {i \in 1..Len(sleep_list) : a <= alarm[sleep_list[i]]}
                \cup {Len(sleep_list) + 1}
<1>1. Len(sleep_list) \in Nat /\ \A i \in 1..Len(sleep_list) : alarm[sleep_list[i]] \in Int
  BY SeqLen, SeqElem DEF TypeOK
<1>2. S \subseteq Nat /\ S # {}
  BY <1>1
<1>3. Least(S) \in S /\ \A n \in S : Least(S) <= n
  <2> HIDE DEF S
  <2> QED BY ZenonT(60), <1>2, MinExists
<1>4. Least(S) \in 1..(Len(sleep_list) + 1)
  BY <1>1, <1>3
<1>5. ASSUME NEW i \in 1..Len(sleep_list)
      PROVE  /\ i < Least(S) => alarm[sleep_list[i]] < a
             /\ i = Least(S) => a <= alarm[sleep_list[i]]
  BY <1>1, <1>3
<1>6. InsertPos(sleep_list, {t \in Threads : a <= alarm[t]}) = Least(S)
  <2>1. \A i \in 1..Len(sleep_list) : sleep_list[i] \in Threads
    BY SeqElem DEF TypeOK
  <2>2. {i \in 1..Len(sleep_list) : sleep_list[i] \in {t \in Threads : a <= alarm[t]}}
          = {i \in 1..Len(sleep_list) : a <= alarm[sleep_list[i]]}
    BY Zenon, <2>1
  <2> QED BY Zenon, <2>2 DEF InsertPos
<1> HIDE DEF S
<1> QED BY Zenon, <1>4, <1>5, <1>6

(* The wake-up loop of the timer interrupt stays inside the sleep list.    *)
LEMMA WakeFacts ==
    ASSUME HaveMinima, TypeOK, NEW now \in Int
    PROVE  /\ WakeCount(now) \in 0..Len(sleep_list)
           /\ NextEarliest(WakeCount(now)) \in Int
<1> DEFINE len == Len(sleep_list)
           S == {n \in 1..len : n < len => now < alarm[sleep_list[n + 1]]}
<1>1. sleep_list \in Seq(Threads) /\ alarm \in [Threads -> Int] /\ earliest \in Int
  BY DEF TypeOK
<1>2. len \in Nat
  BY <1>1, SeqLen
<1>3. WakeCount(now) \in 0..len
  <2>1. CASE sleep_list = <<>> \/ now < earliest
    BY <2>1, <1>2 DEF WakeCount
  <2>2. CASE ~ (sleep_list = <<>> \/ now < earliest)
    <3>1. len # 0
      BY <2>2, <1>1, SeqEmpty
    <3>2. len \in S
      <4>1. len \in 1..len /\ ~ (len < len)
        BY <3>1, <1>2
      <4> QED BY ZenonT(60), <4>1
    <3>3. S \subseteq Nat /\ S # {} /\ S \subseteq 0..len
      <4>1. S \subseteq 1..len
        BY ZenonT(60)
      <4>2. 1..len \subseteq 0..len /\ 0..len \subseteq Nat
        BY <1>2
      <4> QED BY ZenonT(60), <3>2, <4>1, <4>2
    <3>4. WakeCount(now) = Least(S)
      BY <2>2 DEF WakeCount
    <3> HIDE DEF S
    <3> QED BY ZenonT(60), <3>3, <3>4, MinExists
  <2> QED BY <2>1, <2>2
<1>4. PICK n \in 0..len : n = WakeCount(now)
  BY <1>3
<1>5. NextEarliest(n) \in Int
  <2>1. (n # 0 /\ n # len) => alarm[sleep_list[n + 1]] \in Int
    <3>1. (n # 0 /\ n # len) => n + 1 \in 1..len
      BY <1>2
    <3> QED BY <3>1, <1>1, SeqElem
  <2> QED BY <2>1, <1>1, ThreadAssumption DEF NextEarliest
<1> QED BY <1>3, <1>4, <1>5

-----------------------------------------------------------------------------
(* IInv.                                                                    *)

(* The initial state. *)
LEMMA InitIInv == Init => IInv
<1> SUFFICES ASSUME Init PROVE IInv
  OBVIOUS
<1>1. TypeOK
  BY ThreadAssumption, PoolFacts, SeqEmpty
     DEF Init, TypeOK, Statuses, Labels, Semas, Locks
<1>2. \A t \in Threads : pc[t] = IF t = Main THEN "boot" ELSE "none"
  BY DEF Init
<1>3. LockExclusion
  BY <1>2, PoolFacts DEF Init, LockExclusion, Owns, Semas, Locks
<1>4. BootInv
  BY <1>2, PoolFacts DEF Init, BootInv
<1>5. PageInv
  BY <1>2, PoolFacts DEF Init, PageInv, HasPage
<1>6. VictimInv
  BY <1>2, PoolFacts, ElemsEmpty DEF Init, VictimInv
<1>7. TidInv
  BY <1>2, PoolFacts DEF Init, TidInv
<1> QED BY <1>1, <1>3, <1>4, <1>5, <1>6, <1>7 DEF IInv

-----------------------------------------------------------------------------
(* What a step has to leave alone for each part of the invariant to hold     *)
(* after it, in terms of the predicates the part is made of.                 *)

Inside == {"read", "write", "clear"}

(* The phases of thread_create after its page has been checked. *)
TidPhase(c) ==
    \/ pc[c] = "insert"
    \/ lk[c] = "tid" /\ pc[c] \in {"down", "wake", "hold", "read", "write", "clear", "up"}

Scanned(c) == pc[c] = "write" /\ lk[c] = "pool"
TidRead(c) == pc[c] = "write" /\ lk[c] = "tid"

(* Labels at which a thread is inside no lock and has no page in hand.      *)
Quiet == {"none", "run", "reap", "dead", "idle_hlt", "idle_block"}

-----------------------------------------------------------------------------
(* All steps together.                                                     *)

(* Every step preserves the invariant: one lemma per action of Next.       *)
LEMMA NextIInv ==
    HaveMinima /\ IInv /\ [Next]_vars => IInv'
(* A step that moves nobody into or out of a lock, and leaves the value of  *)
(* its semaphore, keeps LockExclusion.                                      *)
<1>LockFrame.
    ASSUME LockExclusion, Running,
           \A l \in Locks : value'[l] = value[l],
           \A t \in Threads, l \in Locks : Owns(t, l)' <=> Owns(t, l),
           \A t \in Threads, l \in Locks :
              holder'[l] = t <=> Owns(t, l)' /\ pc'[t] \in Inside
    PROVE  LockExclusion'
  <2> USE <1>LockFrame
  <2>1. ASSUME NEW l \in Locks, NEW t \in Threads, NEW u \in Threads,
               Owns(t, l)', Owns(u, l)'
        PROVE  t = u
    BY ZenonT(60), <2>1 DEF LockExclusion
  <2>2. ASSUME NEW l \in Locks
        PROVE  value'[l] = IF \E t \in Threads : Owns(t, l)' THEN 0 ELSE 1
    BY DEF LockExclusion
  <2> QED BY <2>1, <2>2 DEF LockExclusion, Inside
(* A step that gives no page to anybody keeps PageInv.                      *)
<1>PageFrame.
    ASSUME PageInv,
           pc'[Main] # "none",
           \A t \in Pool : pc'[t] # "none" => pc[t] # "none",
           \A t \in used_map : pc[t] = "none" => pc'[t] = "none",
           used_map' = used_map,
           \A c \in Threads : HasPage(c)' => HasPage(c) /\ page'[c] = page[c],
           \A c \in Threads : Scanned(c)' => Scanned(c) /\ page'[c] = page[c],
           \A c \in Threads :
              TidPhase(c)' => (TidPhase(c) \/ HasPage(c)) /\ page'[c] = page[c]
    PROVE  PageInv'
  <2> USE <1>PageFrame
  <2>1. ASSUME NEW c \in Threads, HasPage(c)'
        PROVE  page'[c] \in used_map' /\ pc'[page'[c]] = "none"
    <3>1. HasPage(c) /\ page'[c] = page[c]
      BY ZenonT(60), <2>1
    <3>2. page[c] \in used_map /\ pc[page[c]] = "none"
      BY ZenonT(60), <3>1 DEF PageInv
    <3> QED BY ZenonT(60), <3>1, <3>2
  <2>2. ASSUME NEW c \in Threads, Scanned(c)'
        PROVE  page'[c] \notin used_map'
    BY ZenonT(60), <2>2 DEF PageInv, Scanned
  <2>3. ASSUME NEW c \in Threads, TidPhase(c)'
        PROVE  page'[c] # NULL
    BY ZenonT(60), <2>3 DEF PageInv, TidPhase, HasPage
  <2>4. ASSUME NEW c \in Threads, NEW d \in Threads,
               HasPage(c)', HasPage(d)', page'[c] = page'[d]
        PROVE  c = d
    BY ZenonT(60), <2>4 DEF PageInv
  <2>5. \A t \in Pool : pc'[t] # "none" => t \in used_map'
    BY ZenonT(60) DEF PageInv
  <2> QED BY ZenonT(60), <2>1, <2>2, <2>3, <2>4, <2>5 DEF PageInv, Scanned, TidPhase
(* A step that neither queues a dead page nor takes one keeps VictimInv.    *)
<1>VictimFrame.
    ASSUME VictimInv, TypeOK,
           destruction_req' = destruction_req,
           \A t \in Threads : pc[t] = "dead" => pc'[t] = "dead",
           \A c \in Threads : pc'[c] = "reap" => pc[c] = "reap" /\ page'[c] = page[c]
    PROVE  VictimInv'
  <2> USE <1>VictimFrame
  <2>1. Elems(destruction_req)' = Elems(destruction_req)
    OBVIOUS
  <2>2. \A t \in Elems(destruction_req) : t \in Threads
    BY ZenonT(60), PoolFacts, ElemsSubset DEF TypeOK
  <2>3. Len(destruction_req') <= 1
    BY DEF VictimInv
  <2>4. \A t \in Elems(destruction_req') : pc'[t] = "dead"
    BY <2>1, <2>2 DEF VictimInv
  <2>5. ASSUME NEW c \in Threads, pc'[c] = "reap"
        PROVE  /\ page'[c] \in Pool
               /\ pc'[page'[c]] = "dead"
               /\ page'[c] \notin Elems(destruction_req')
    BY ZenonT(60), <2>1, <2>5, PoolFacts DEF VictimInv
  <2>6. ASSUME NEW c \in Threads, NEW d \in Threads,
               pc'[c] = "reap", pc'[d] = "reap", page'[c] = page'[d]
        PROVE  c = d
    BY <2>6 DEF VictimInv
  <2> QED BY ZenonT(60), <2>3, <2>4, <2>5, <2>6 DEF VictimInv
(* A step outside tid_lock's region keeps TidInv.                           *)
<1>TidFrame.
    ASSUME TidInv, tid' = tid, next_tid' = next_tid,
           \A c \in Threads : TidRead(c)' => TidRead(c) /\ val'[c] = val[c]
    PROVE  TidInv'
  BY <1>TidFrame DEF TidInv, TidRead
(* A step that takes no idle thread off the run queue keeps BootInv.        *)
<1>BootFrame.
    ASSUME BootInv, idle_thread' = idle_thread,
           pc[Main] # "boot",
           \A t \in Threads : pc'[t] = "boot" => pc[t] = "boot",
           \A t \in Pool : pc[t] = "idle_init" => pc'[t] = "idle_init",
           {current} \cup Elems(ready_list) \subseteq
              {current} \cup {current'} \cup Elems(ready_list'),
           (pc[current] = "idle_init" /\ idle_thread = NULL) =>
              current \in {current'} \cup Elems(ready_list')
    PROVE  BootInv'
  <2> USE <1>BootFrame
  <2>1. pc'[Main] # "boot"
    BY PoolFacts
  <2>2. ASSUME idle_thread' = NULL
        PROVE  \E i \in Pool : /\ pc'[i] = "idle_init"
                                /\ i \in {current'} \cup Elems(ready_list')
    <3>1. PICK i \in Pool : pc[i] = "idle_init" /\ i \in {current} \cup Elems(ready_list)
      BY <2>2 DEF BootInv
    <3>2. i \in {current'} \cup Elems(ready_list')
      BY <3>1, <2>2
    <3> QED BY <3>1, <3>2
  <2> QED BY <2>1, <2>2 DEF BootInv
(* What a local step may do at most to the pages.                          *)
<1>LocalPages.
    ASSUME NEW me \in Threads, IInv, Running, OthersSame(me), used_map' = used_map,
           destruction_req' = destruction_req,
           pc[me] \notin {"none", "dead"},
           pc'[me] \notin {"none", "reap"},
           HasPage(me)' => HasPage(me) /\ page'[me] = page[me],
           Scanned(me)' => Scanned(me) /\ page'[me] = page[me],
           TidPhase(me)' => (TidPhase(me) \/ HasPage(me)) /\ page'[me] = page[me]
    PROVE  PageInv' /\ VictimInv'
  <2> USE <1>LocalPages
  <2>1. TypeOK /\ PageInv /\ VictimInv
    BY ZenonT(60) DEF IInv, TypeOK
  <2>2. ASSUME NEW c \in Threads, c # me
        PROVE  /\ HasPage(c)' <=> HasPage(c)
               /\ Scanned(c)' <=> Scanned(c)
               /\ TidPhase(c)' <=> TidPhase(c)
               /\ page'[c] = page[c] /\ pc'[c] = pc[c]
    BY ZenonT(60), <2>2 DEF OthersSame, HasPage, Scanned, TidPhase
  <2>3. PageInv'
    <3>1. pc'[Main] # "none"
      BY ZenonT(60), <2>1, <2>2, PoolFacts DEF PageInv
    <3>2. \A t \in Threads : pc'[t] # "none" => pc[t] # "none"
      BY ZenonT(60), <2>1, <2>2
    <3>3. \A t \in used_map : pc[t] = "none" => pc'[t] = "none"
      BY ZenonT(60), <2>1, <2>2, PoolFacts DEF TypeOK
    <3>4. \A c \in Threads : /\ HasPage(c)' => HasPage(c) /\ page'[c] = page[c]
                             /\ Scanned(c)' => Scanned(c) /\ page'[c] = page[c]
                             /\ TidPhase(c)' => /\ TidPhase(c) \/ HasPage(c)
                                                /\ page'[c] = page[c]
      BY ZenonT(60), <2>2
    <3> QED BY ZenonT(60), <2>1, <3>1, <3>2, <3>3, <3>4, <1>PageFrame, PoolFacts
  <2>4. VictimInv'
    BY ZenonT(60), <2>1, <2>2, <1>VictimFrame
  <2> QED BY <2>3, <2>4
(* What a local step may do at most to the locks and tids.                 *)
<1>LocalLocks.
    ASSUME NEW me \in Threads, IInv, Running, OthersSame(me),
           \A l \in Locks : value'[l] = value[l],
           tid' = tid, next_tid' = next_tid,
           \A l \in Locks : Owns(me, l)' <=> Owns(me, l),
           \A l \in Locks, t \in Threads :
              t # me => (holder'[l] = t <=> holder[l] = t),
           \A l \in Locks :
              holder'[l] = me <=> Owns(me, l)' /\ pc'[me] \in Inside,
           TidRead(me)' => TidRead(me) /\ val'[me] = val[me]
    PROVE  LockExclusion' /\ TidInv'
  <2> USE <1>LocalLocks
  <2>1. LockExclusion /\ TidInv
    BY ZenonT(60) DEF IInv, TypeOK
  <2>2. ASSUME NEW c \in Threads, c # me
        PROVE  /\ \A l \in Locks : Owns(c, l)' <=> Owns(c, l)
               /\ TidRead(c)' <=> TidRead(c)
               /\ pc'[c] = pc[c] /\ val'[c] = val[c]
    BY ZenonT(60), <2>2 DEF OthersSame, Owns, TidRead
  <2>3. ASSUME NEW t \in Threads, NEW l \in Locks
        PROVE  holder'[l] = t <=> Owns(t, l)' /\ pc'[t] \in Inside
    <3>1. CASE t = me
      BY ZenonT(60), <3>1
    <3>2. CASE t # me
      <4>1. holder[l] = t <=> Owns(t, l) /\ pc[t] \in Inside
        BY ZenonT(60), <2>1 DEF LockExclusion, Inside
      <4> QED BY ZenonT(60), <4>1, <3>2, <2>2
    <3> QED BY ZenonT(60), <3>1, <3>2
  <2>4. \A t \in Threads, l \in Locks : Owns(t, l)' <=> Owns(t, l)
    BY ZenonT(60), <2>2
  <2>5. LockExclusion'
    BY ZenonT(60), <2>1, <2>3, <2>4, <1>LockFrame
  <2>6. TidInv'
    BY ZenonT(60), <2>1, <2>2, <1>TidFrame
  <2> QED BY ZenonT(60), <2>5, <2>6
(* What a local step may do at most to the boot sequence.                   *)
<1>LocalBoot.
    ASSUME NEW me \in Threads, me = current, IInv, Running, OthersSame(me), idle_thread' = idle_thread,
           pc[current] \notin {"boot", "idle_init"},
           pc'[me] # "boot",
           Elems(ready_list) \subseteq {current'} \cup Elems(ready_list')
    PROVE  BootInv'
  <2> USE <1>LocalBoot
  <2>1. BootInv /\ current \in Threads
    BY DEF IInv, TypeOK
  <2>2. pc[Main] # "boot"
    BY <2>1 DEF BootInv
  <2>3. \A t \in Threads : pc'[t] = "boot" => pc[t] = "boot"
    BY <2>1 DEF OthersSame
  <2>4. \A t \in Pool : pc[t] = "idle_init" => pc'[t] = "idle_init"
    BY <2>1, PoolFacts DEF OthersSame
  <2> QED BY ZenonT(60), <2>1, <2>2, <2>3, <2>4, <1>BootFrame
(* timer_sleep computes the alarm.                                         *)
<1>TimerSleepStep.
    ASSUME IInv, NEW d \in Durations, timer_sleep(d)
    PROVE  IInv'
  <2> USE <1>TimerSleepStep
  <2>0. /\ Running /\ pc[current] = "run"
        /\ pc' = [pc EXCEPT ![current] = "sleep"]
        /\ val' = [val EXCEPT ![current] = ticks + d]
        /\ UNCHANGED <<current, status, ready_list, thread_ticks, destruction_req,
                       sleep_list, alarm, earliest, ticks, used_map, value, waiters,
                       holder, next_tid, tid, idle_thread, lk, page, fault>>
    BY DEF timer_sleep, At, Goto, Running, schedVars, alarmVars, lockVars, tidVars
  <2>1. TypeOK /\ LockExclusion
    BY <2>0 DEF IInv
  <2>2. PICK me \in Threads : me = current
    BY <2>1 DEF TypeOK
  <2>3. TypeOK'
    <3>1. ticks + d \in Int
      BY <2>1, ThreadAssumption DEF TypeOK
    <3> QED BY ZenonT(60), <3>1, <2>0, <2>1 DEF TypeOK, Labels
  <2>4. pc'[me] = "sleep" /\ lk'[me] = lk[me] /\ OthersSame(me)
    BY ZenonT(60), <2>0, <2>1, <2>2 DEF TypeOK, OthersSame
  <2>5. PageInv' /\ VictimInv'
    BY ZenonT(60), <2>0, <2>2, <2>4, <1>LocalPages DEF HasPage, Scanned, TidPhase
  <2>6. LockExclusion' /\ TidInv'
    <3>1. \A l \in Locks : holder[l] # me
      BY ZenonT(60), <2>0, <2>1, <2>2 DEF LockExclusion
    <3> QED BY ZenonT(60), <3>1, <2>0, <2>2, <2>4, <1>LocalLocks DEF Owns, TidRead, Inside
  <2>7. BootInv'
    BY ZenonT(60), <2>0, <2>2, <2>4, <1>LocalBoot
  <2> QED BY <2>0, <2>3, <2>5, <2>6, <2>7 DEF IInv
(* thread_sleep links the thread into the sleep list and blocks it.         *)
<1>ThreadSleepStep.
    ASSUME HaveMinima, IInv, thread_sleep
    PROVE  IInv'
  <2> USE <1>ThreadSleepStep
  <2>0. /\ Running /\ pc[current] = "sleep"
        /\ pc' = [pc EXCEPT ![current] = "run"]
        /\ val' = [val EXCEPT ![current] = 0]
        /\ alarm' = [alarm EXCEPT ![current] = val[current]]
        /\ earliest' = IF earliest > val[current] THEN val[current] ELSE earliest
        /\ thread_block
        /\ UNCHANGED <<ticks, used_map, value, waiters, holder, next_tid, tid,
                       idle_thread, lk, page, fault>>
    BY DEF thread_sleep, At, Goto, Running, lockVars, tidVars
  <2>1. TypeOK /\ LockExclusion
    BY <2>0 DEF IInv
  <2>2. PICK me \in Threads : me = current
    BY <2>1 DEF TypeOK
  <2>3. /\ current' \in Threads /\ status' \in [Threads -> Statuses]
        /\ ready_list' \in Seq(Threads) /\ thread_ticks' \in 0..(TIME_SLICE - 1)
        /\ destruction_req' = destruction_req
        /\ Elems(ready_list) \subseteq {current'} \cup Elems(ready_list')
    BY ZenonT(60), <2>0, BlockFacts
  <2>4. sleep_list' \in Seq(Threads)
    <3> DEFINE a == val[current]
               Bigger == {t \in Threads : a <= alarm[t]}
               p == InsertPos(sleep_list, Bigger)
    <3>1. a \in Int
      BY <2>1 DEF TypeOK
    <3>2. p \in 1..(Len(sleep_list) + 1)
      BY ZenonT(60), <2>1, <3>1, SleepInsert
    <3>3. sleep_list' = Popped(sleep_list, p - 1) \o <<current>> \o Rest(sleep_list, p - 1)
      BY DEF thread_sleep, list_insert_ordered
    <3> HIDE DEF p
    <3> QED BY ZenonT(60), <3>2, <3>3, <2>1, ElemsInsert DEF TypeOK
  <2>5. TypeOK'
    <3>1. val[current] \in Int
      BY <2>1 DEF TypeOK
    <3>2. alarm' \in [Threads -> Int] /\ earliest' \in Int
      BY <3>1, <2>0, <2>1 DEF TypeOK
    <3>3. pc' \in [Threads -> Labels]
      BY <2>0, <2>1 DEF TypeOK, Labels
    <3>4. val' \in [Threads -> Int]
      BY <2>0, <2>1 DEF TypeOK
    <3> QED BY ZenonT(60), <3>2, <3>3, <3>4, <2>0, <2>1, <2>3, <2>4 DEF TypeOK
  <2>6. pc'[me] = "run" /\ lk'[me] = lk[me] /\ OthersSame(me)
    BY ZenonT(60), <2>0, <2>1, <2>2 DEF TypeOK, OthersSame
  <2>7. PageInv' /\ VictimInv'
    BY ZenonT(60), <2>0, <2>2, <2>3, <2>6, <1>LocalPages DEF HasPage, Scanned, TidPhase
  <2>8. LockExclusion' /\ TidInv'
    <3>1. \A l \in Locks : holder[l] # me
      BY ZenonT(60), <2>0, <2>1, <2>2 DEF LockExclusion
    <3> QED BY ZenonT(60), <3>1, <2>0, <2>2, <2>6, <1>LocalLocks DEF Owns, TidRead, Inside
  <2>9. BootInv'
    BY ZenonT(60), <2>0, <2>2, <2>3, <2>6, <1>LocalBoot
  <2> QED BY <2>5, <2>7, <2>8, <2>9 DEF IInv
(* thread_create begins. *)
<1>CreateStep.
    ASSUME IInv, thread_create
    PROVE  IInv'
  <2> USE <1>CreateStep
  <2>0. /\ Running /\ pc[current] = "run"
        /\ pc' = [pc EXCEPT ![current] = "down"]
        /\ lk' = [lk EXCEPT ![current] = "pool"]
        /\ UNCHANGED <<current, status, ready_list, thread_ticks, destruction_req,
                       sleep_list, alarm, earliest, ticks, used_map, value, waiters,
                       holder, next_tid, tid, idle_thread, page, val, fault>>
    BY DEF thread_create, At, Goto, Running, schedVars, alarmVars, lockVars, tidVars
  <2>1. TypeOK /\ LockExclusion
    BY ZenonT(60), <2>0 DEF IInv
  <2>2. PICK me \in Threads : me = current
    BY <2>1 DEF TypeOK
  <2>3. TypeOK'
    BY ZenonT(60), <2>0, <2>1 DEF TypeOK, Labels, Semas, Locks
  <2>4. pc'[me] = "down" /\ lk'[me] = "pool" /\ OthersSame(me)
    BY ZenonT(60), <2>0, <2>1, <2>2 DEF TypeOK, OthersSame
  <2>5. PageInv' /\ VictimInv'
    BY ZenonT(60), <2>0, <2>2, <2>4, <1>LocalPages DEF HasPage, Scanned, TidPhase
  <2>6. LockExclusion' /\ TidInv'
    <3>1. \A l \in Locks : holder[l] # me
      BY ZenonT(60), <2>0, <2>1, <2>2 DEF LockExclusion
    <3> QED BY ZenonT(60), <3>1, <2>0, <2>2, <2>4, <1>LocalLocks DEF Owns, TidRead, Inside
  <2>7. BootInv'
    BY ZenonT(60), <2>0, <2>2, <2>4, <1>LocalBoot
  <2> QED BY ZenonT(60), <2>0, <2>3, <2>5, <2>6, <2>7 DEF IInv
(* lock_acquire records the holder: nobody else was recorded. *)
<1>AcquireStep.
    ASSUME IInv, lock_acquire
    PROVE  IInv'
  <2> USE <1>AcquireStep
  <2>0. /\ Running /\ pc[current] = "hold"
        /\ holder' = [holder EXCEPT ![lk[current]] = current]
        /\ pc' = [pc EXCEPT ![current] = "read"]
        /\ UNCHANGED <<current, status, ready_list, thread_ticks, destruction_req,
                       sleep_list, alarm, earliest, ticks, used_map, value, waiters,
                       next_tid, tid, idle_thread, lk, page, val, fault>>
    BY DEF lock_acquire, At, Goto, Running, schedVars, alarmVars, tidVars, locVars
  <2>1. TypeOK /\ LockExclusion
    BY ZenonT(60), <2>0 DEF IInv
  <2>2. PICK me \in Threads : me = current
    BY <2>1 DEF TypeOK
  <2>3. TypeOK'
    BY ZenonT(60), <2>0, <2>1 DEF TypeOK, Labels
  <2>4. pc'[me] = "read" /\ lk'[me] = lk[me] /\ page'[me] = page[me] /\ OthersSame(me)
    BY ZenonT(60), <2>0, <2>1, <2>2 DEF TypeOK, OthersSame
  <2>5. PageInv' /\ VictimInv'
    BY ZenonT(60), <2>0, <2>2, <2>4, <1>LocalPages DEF HasPage, Scanned, TidPhase
  <2>6. LockExclusion' /\ TidInv'
    <3>1. \A l \in Locks : holder'[l] = IF l = lk[me] THEN me ELSE holder[l]
      BY <2>0, <2>1, <2>2 DEF TypeOK
    <3>2. \A l \in Locks : Owns(me, l) <=> l = lk[me]
      BY <2>0, <2>2 DEF Owns
    <3>3. \A l \in Locks : Owns(me, l)' <=> l = lk[me]
      BY <2>4 DEF Owns
    <3>4. \A l \in Locks, t \in Threads : t # me => (holder'[l] = t <=> holder[l] = t)
      BY ZenonT(60), <3>1, <3>2, <2>0, <2>1 DEF LockExclusion
    <3>5. \A l \in Locks : holder'[l] = me <=> Owns(me, l)' /\ pc'[me] \in Inside
      <4>1. \A l \in Locks : holder[l] # me
        BY ZenonT(60), <2>0, <2>1, <2>2 DEF LockExclusion
      <4> QED BY ZenonT(60), <4>1, <3>1, <3>3, <2>4 DEF Inside
    <3>6. ~ TidRead(me)'
      BY ZenonT(60), <2>4 DEF TidRead
    <3> QED BY ZenonT(60), <3>2, <3>3, <3>4, <3>5, <3>6, <2>0, <2>4, <1>LocalLocks
  <2>7. BootInv'
    BY ZenonT(60), <2>0, <2>2, <2>4, <1>LocalBoot
  <2> QED BY ZenonT(60), <2>0, <2>3, <2>5, <2>6, <2>7 DEF IInv
(* lock_release clears the holder. *)
<1>ReleaseStep.
    ASSUME IInv, lock_release
    PROVE  IInv'
  <2> USE <1>ReleaseStep
  <2>0. /\ Running /\ pc[current] = "clear"
        /\ holder' = [holder EXCEPT ![lk[current]] = NULL]
        /\ pc' = [pc EXCEPT ![current] = "up"]
        /\ UNCHANGED <<current, status, ready_list, thread_ticks, destruction_req,
                       sleep_list, alarm, earliest, ticks, used_map, value, waiters,
                       next_tid, tid, idle_thread, lk, page, val, fault>>
    BY DEF lock_release, At, Goto, Running, schedVars, alarmVars, tidVars, locVars
  <2>1. TypeOK /\ LockExclusion
    BY ZenonT(60), <2>0 DEF IInv
  <2>2. PICK me \in Threads : me = current
    BY <2>1 DEF TypeOK
  <2>3. TypeOK'
    BY ZenonT(60), <2>0, <2>1 DEF TypeOK, Labels
  <2>4. pc'[me] = "up" /\ lk'[me] = lk[me] /\ page'[me] = page[me] /\ OthersSame(me)
    BY ZenonT(60), <2>0, <2>1, <2>2 DEF TypeOK, OthersSame
  <2>5. PageInv' /\ VictimInv'
    BY ZenonT(60), <2>0, <2>2, <2>4, <1>LocalPages DEF HasPage, Scanned, TidPhase
  <2>6. LockExclusion' /\ TidInv'
    <3>1. \A l \in Locks : holder'[l] = IF l = lk[me] THEN NULL ELSE holder[l]
      BY ZenonT(60), <2>0, <2>1, <2>2 DEF TypeOK
    <3>2. \A l \in Locks : Owns(me, l) <=> l = lk[me]
      BY ZenonT(60), <2>0, <2>2 DEF Owns
    <3>3. \A l \in Locks : Owns(me, l)' <=> l = lk[me]
      BY ZenonT(60), <2>4 DEF Owns
    <3>0. NULL \notin Threads /\ \A l \in Locks : holder[l] = me <=> l = lk[me]
      <4>1. \A l \in Locks : holder[l] = me <=> Owns(me, l) /\ pc[me] \in {"read", "write", "clear"}
        BY ZenonT(60), <2>0, <2>1 DEF LockExclusion
      <4> QED BY ZenonT(60), <3>2, <4>1, <2>0, <2>2, PoolFacts
    <3>4. ASSUME NEW l \in Locks, NEW t \in Threads, t # me
          PROVE  holder'[l] = t <=> holder[l] = t
      <4>1. CASE l = lk[me]
        <5>1. holder[l] = me /\ holder'[l] = NULL /\ NULL # t
          BY ZenonT(60), <3>0, <3>1, <4>1
        <5>2. holder[l] # t
          BY <5>1, <3>4
        <5>3. holder'[l] # t
          BY <5>1
        <5> QED BY ZenonT(60), <5>2, <5>3
      <4>2. CASE l # lk[me]
        BY ZenonT(60), <3>1, <4>2
      <4> QED BY ZenonT(60), <4>1, <4>2
    <3>5. ASSUME NEW l \in Locks
          PROVE  holder'[l] = me <=> Owns(me, l)' /\ pc'[me] \in Inside
      <4>1. pc'[me] \notin Inside
        BY <2>4 DEF Inside
      <4>2. holder'[l] # me
        BY ZenonT(60), <3>0, <3>1
      <4> QED BY ZenonT(60), <4>1, <4>2
    <3>6. ~ TidRead(me)'
      BY <2>4 DEF TidRead
    <3> QED BY ZenonT(60), <3>2, <3>3, <3>4, <3>5, <3>6, <2>0, <2>4, <1>LocalLocks
  <2>7. BootInv'
    BY ZenonT(60), <2>0, <2>2, <2>4, <1>LocalBoot
  <2> QED BY ZenonT(60), <2>0, <2>3, <2>5, <2>6, <2>7 DEF IInv
(* sema_down, when it waits. *)
<1>DownWaitStep.
    ASSUME IInv, sema_down, value[lk[current]] = 0
    PROVE  IInv'
  <2> USE <1>DownWaitStep
  <2>0. /\ Running /\ pc[current] \in {"down", "wake"}
        /\ waiters' = [waiters EXCEPT ![lk[current]] = Append(@, current)]
        /\ pc' = [pc EXCEPT ![current] = "wake"]
        /\ thread_block
        /\ UNCHANGED <<sleep_list, alarm, earliest, ticks, used_map, value, holder,
                       next_tid, tid, idle_thread, lk, page, val, fault>>
    <3>1. ~ (value[lk[current]] > 0)
      BY SMTT(30)
    <3> QED BY ZenonT(60), <3>1
            DEF sema_down, At, Goto, Running, alarmVars, tidVars, locVars
  <2>1. TypeOK /\ LockExclusion
    BY <2>0 DEF IInv
  <2>2. PICK me \in Threads : me = current
    BY ZenonT(60), <2>1 DEF TypeOK
  <2>3. /\ current' \in Threads /\ status' \in [Threads -> Statuses]
        /\ ready_list' \in Seq(Threads) /\ thread_ticks' \in 0..(TIME_SLICE - 1)
        /\ destruction_req' = destruction_req
        /\ Elems(ready_list) \subseteq {current'} \cup Elems(ready_list')
    BY ZenonT(60), <2>0, BlockFacts
  <2>4. TypeOK'
    <3>1. waiters' \in [Semas -> Seq(Threads)]
      <4>1. lk[current] \in Semas /\ waiters[lk[current]] \in Seq(Threads)
            /\ current \in Threads
        BY <2>1 DEF TypeOK
      <4>2. Append(waiters[lk[current]], current) \in Seq(Threads)
        BY <4>1, ElemsAppend
      <4> QED BY <4>1, <4>2, <2>0, <2>1 DEF TypeOK
    <3>2. pc' \in [Threads -> Labels]
      BY <2>0, <2>1 DEF TypeOK, Labels
    <3> QED BY ZenonT(60), <3>1, <3>2, <2>0, <2>1, <2>3 DEF TypeOK
  <2>5. pc'[me] = "wake" /\ lk'[me] = lk[me] /\ page'[me] = page[me] /\ OthersSame(me)
    BY ZenonT(60), <2>0, <2>1, <2>2 DEF TypeOK, OthersSame
  <2>6. PageInv' /\ VictimInv'
    BY ZenonT(60), <2>0, <2>2, <2>3, <2>5, <1>LocalPages DEF HasPage, Scanned, TidPhase
  <2>7. LockExclusion' /\ TidInv'
    <3>1. \A l \in Locks : holder[l] # me
      BY ZenonT(60), <2>0, <2>1, <2>2 DEF LockExclusion
    <3> QED BY ZenonT(60), <3>1, <2>0, <2>2, <2>5, <1>LocalLocks DEF Owns, TidRead, Inside
  <2>8. BootInv'
    BY ZenonT(60), <2>0, <2>2, <2>3, <2>5, <1>LocalBoot
  <2> QED BY ZenonT(60), <2>4, <2>6, <2>7, <2>8 DEF IInv
(* sema_down, when it decrements: of a lock, whose new owner is alone, or   *)
(* of idle_started.                                                         *)
<1>DownTakeStep.
    ASSUME IInv, sema_down, value[lk[current]] # 0
    PROVE  IInv'
  <2> USE <1>DownTakeStep
  <2>0. /\ Running /\ pc[current] \in {"down", "wake"}
        /\ value' = [value EXCEPT ![lk[current]] = @ - 1]
        /\ pc' = [pc EXCEPT ![current] = IF lk[current] = "idle" THEN "run" ELSE "hold"]
        /\ UNCHANGED <<current, status, ready_list, thread_ticks, destruction_req, waiters,
                       sleep_list, alarm, earliest, ticks, used_map, holder,
                       next_tid, tid, idle_thread, lk, page, val, fault>>
    BY ZenonT(60) DEF sema_down, At, Goto, Running, alarmVars, tidVars, locVars, schedVars
  <2>1. TypeOK /\ LockExclusion /\ TidInv
    BY <2>0 DEF IInv
  <2>2. PICK me \in Threads : me = current
    BY <2>1 DEF TypeOK
  <2>3. lk[me] \in Semas /\ value[lk[me]] \in Nat /\ value[lk[me]] > 0
    BY <2>1, <2>2 DEF TypeOK
  <2>4. TypeOK'
    <3>1. value' \in [Semas -> Nat]
      <4>1. value \in [Semas -> Nat] /\ value' = [value EXCEPT ![lk[me]] = value[lk[me]] - 1]
        BY ZenonT(60), <2>0, <2>1, <2>2 DEF TypeOK
      <4>2. value[lk[me]] - 1 \in Nat
        BY <2>3
      <4> QED BY ZenonT(60), <4>1, <4>2
    <3>2. pc' \in [Threads -> Labels]
      BY ZenonT(60), <2>0, <2>1 DEF TypeOK, Labels
    <3> QED BY ZenonT(60), <3>1, <3>2, <2>0, <2>1 DEF TypeOK
  <2>5. /\ pc'[me] = IF lk[me] = "idle" THEN "run" ELSE "hold"
        /\ lk'[me] = lk[me] /\ page'[me] = page[me] /\ OthersSame(me)
    BY ZenonT(60), <2>0, <2>1, <2>2 DEF TypeOK, OthersSame
  <2>6. PageInv' /\ VictimInv'
    <3>1. pc[me] \in {"down", "wake"} /\ pc'[me] \in {"run", "hold"}
      BY ZenonT(60), <2>0, <2>2, <2>5
    <3> QED BY ZenonT(60), <3>1, <2>0, <2>2, <2>5, <1>LocalPages DEF HasPage, Scanned, TidPhase
  <2>7. LockExclusion'
    <3>1. \A l \in Locks : value'[l] = IF l = lk[me] THEN value[l] - 1 ELSE value[l]
      BY ZenonT(60), <2>0, <2>1, <2>2 DEF TypeOK, Semas
    <3>2. \A l \in Locks : ~ Owns(me, l)
      BY <2>0, <2>2 DEF Owns
    <3>3. \A l \in Locks : Owns(me, l)' <=> l = lk[me]
      BY <2>3, <2>5 DEF Owns, Semas, Locks
    <3>4. \A t \in Threads, l \in Locks : t # me => (Owns(t, l)' <=> Owns(t, l))
      BY ZenonT(60), <2>5 DEF Owns, OthersSame
    <3>5. lk[me] \in Locks => \A t \in Threads : ~ Owns(t, lk[me])
      <4>1. ASSUME lk[me] \in Locks
            PROVE  value[lk[me]] = IF \E t \in Threads : Owns(t, lk[me]) THEN 0 ELSE 1
        BY ZenonT(60), <4>1, <2>0, <2>1 DEF LockExclusion
      <4> QED BY <4>1, <2>3
    <3>6. ASSUME NEW l \in Locks, NEW t \in Threads, NEW u \in Threads,
                 Owns(t, l)', Owns(u, l)'
          PROVE  t = u
      <4>1. CASE l = lk[me]
        BY ZenonT(60), <4>1, <3>4, <3>5, <3>6
      <4>2. CASE l # lk[me]
        <5>1. Owns(t, l) /\ Owns(u, l)
          BY ZenonT(60), <4>2, <3>3, <3>4, <3>6
        <5> QED BY ZenonT(60), <5>1, <2>0, <2>1 DEF LockExclusion
      <4> QED BY ZenonT(60), <4>1, <4>2
    <3>7. ASSUME NEW l \in Locks
          PROVE  value'[l] = IF \E t \in Threads : Owns(t, l)' THEN 0 ELSE 1
      <4>1. value[l] = IF \E t \in Threads : Owns(t, l) THEN 0 ELSE 1
        BY ZenonT(60), <2>0, <2>1 DEF LockExclusion
      <4>2. CASE l = lk[me]
        <5>1. value[l] = 1 /\ Owns(me, l)'
          BY ZenonT(60), <4>1, <4>2, <3>3, <3>5
        <5> QED BY <5>1, <4>2, <3>1
      <4>3. CASE l # lk[me]
        BY ZenonT(60), <4>1, <4>3, <3>1, <3>2, <3>3, <3>4
      <4> QED BY ZenonT(60), <4>2, <4>3
    <3>8. ASSUME NEW l \in Locks, NEW t \in Threads
          PROVE  holder'[l] = t <=> Owns(t, l)' /\ pc'[t] \in Inside
      <4>1. holder'[l] = holder[l]
            /\ (holder[l] = t <=> Owns(t, l) /\ pc[t] \in Inside)
        BY ZenonT(60), <2>0, <2>1 DEF LockExclusion, Inside
      <4>2. CASE t = me
        BY ZenonT(60), <4>1, <4>2, <3>2, <2>5 DEF Inside
      <4>3. CASE t # me
        BY ZenonT(60), <4>1, <4>3, <3>4, <2>5 DEF OthersSame
      <4> QED BY ZenonT(60), <4>2, <4>3
    <3> QED BY ZenonT(60), <3>6, <3>7, <3>8 DEF LockExclusion, Inside
  <2>8. TidInv'
    <3>1. ASSUME NEW c \in Threads
          PROVE  TidRead(c)' => TidRead(c) /\ val'[c] = val[c]
      <4>1. CASE c = me
        BY ZenonT(60), <4>1, <2>5 DEF TidRead
      <4>2. CASE c # me
        BY ZenonT(60), <4>2, <2>5 DEF TidRead, OthersSame
      <4> QED BY ZenonT(60), <4>1, <4>2
    <3> QED BY ZenonT(60), <3>1, <2>0, <2>1, <1>TidFrame
  <2>9. BootInv'
    <3>1. pc'[me] # "boot" /\ pc[current] \notin {"boot", "idle_init"}
      BY <2>0, <2>5
    <3>2. Elems(ready_list) \subseteq {current'} \cup Elems(ready_list')
      BY ZenonT(60), <2>0
    <3> QED BY ZenonT(60), <3>1, <3>2, <2>0, <2>2, <2>5, <1>LocalBoot
  <2> QED BY ZenonT(60), <2>4, <2>6, <2>7, <2>8, <2>9 DEF IInv
(* The critical sections read: the pool's bitmap ...                       *)
<1>ReadPoolStep.
    ASSUME HaveMinima, IInv, CriticalRead, lk[current] = "pool"
    PROVE  IInv'
  (* bitmap_scan returns a free page or none. *)
  <2>LowestFreeFacts.
      ASSUME HaveMinima, TypeOK
      PROVE  LowestFree \in (Pool \ used_map) \cup {NULL}
    <3> USE <2>LowestFreeFacts
    <3>1. CASE Pool \subseteq used_map
      BY <3>1 DEF LowestFree
    <3>2. CASE ~ (Pool \subseteq used_map)
      <4> DEFINE S == Pool \ used_map
      <4>1. S \subseteq Nat /\ S # {}
        BY ZenonT(60), <3>2, PoolFacts
      <4>2. Least(S) \in S
        <5> HIDE DEF S
        <5> QED BY ZenonT(60), <4>1, MinExists
      <4> QED BY <3>2, <4>2 DEF LowestFree
    <3> QED BY <3>1, <3>2
  <2> USE <1>ReadPoolStep
  <2>0. /\ Running /\ pc[current] = "read"
        /\ page' = [page EXCEPT ![current] = LowestFree]
        /\ pc' = [pc EXCEPT ![current] = "write"]
        /\ UNCHANGED <<current, status, ready_list, thread_ticks, destruction_req, waiters,
                       sleep_list, alarm, earliest, ticks, used_map, value, holder,
                       next_tid, tid, idle_thread, lk, val, fault>>
    BY DEF CriticalRead, At, Goto, Running, alarmVars, tidVars, lockVars, schedVars
  <2>1. TypeOK /\ LockExclusion /\ PageInv /\ VictimInv
    BY <2>0 DEF IInv
  <2>2. PICK me \in Threads : me = current
    BY <2>1 DEF TypeOK
  <2>3. LowestFree \in (Pool \ used_map) \cup {NULL}
    BY ZenonT(60), <2>1, <2>LowestFreeFacts
  <2>4. TypeOK'
    BY ZenonT(60), <2>0, <2>1, <2>3 DEF TypeOK, Labels
  <2>5. pc'[me] = "write" /\ lk'[me] = "pool" /\ page'[me] = LowestFree /\ OthersSame(me)
    BY ZenonT(60), <2>0, <2>1, <2>2 DEF TypeOK, OthersSame
  <2>6. NULL \notin used_map
    BY ZenonT(60), <2>1, PoolFacts DEF TypeOK
  <2>7. ~ HasPage(me)' /\ ~ TidPhase(me)'
    BY ZenonT(60), <2>5 DEF HasPage, TidPhase
  <2>8. ASSUME NEW c \in Threads, c # me
        PROVE  /\ HasPage(c)' <=> HasPage(c)
               /\ Scanned(c)' <=> Scanned(c)
               /\ TidPhase(c)' <=> TidPhase(c)
               /\ page'[c] = page[c] /\ pc'[c] = pc[c]
    BY ZenonT(60), <2>5, <2>8 DEF OthersSame, HasPage, Scanned, TidPhase
  <2>9. PageInv'
    <3>1. pc'[Main] # "none"
      BY ZenonT(60), <2>1, <2>5, <2>8, PoolFacts DEF PageInv
    <3>2. \A t \in Pool : pc'[t] # "none" => t \in used_map'
      BY ZenonT(60), <2>0, <2>1, <2>2, <2>8, PoolFacts DEF PageInv
    <3>3. ASSUME NEW c \in Threads, HasPage(c)'
          PROVE  page'[c] \in used_map' /\ pc'[page'[c]] = "none"
      <4>1. c # me /\ HasPage(c) /\ page'[c] = page[c]
        BY ZenonT(60), <3>3, <2>7, <2>8
      <4>2. page[c] \in used_map /\ pc[page[c]] = "none" /\ page[c] \in Threads
        BY ZenonT(60), <4>1, <2>1, PoolFacts DEF PageInv, TypeOK
      <4>3. page[c] # me
        BY <4>2, <2>0, <2>2
      <4>4. pc'[page[c]] = "none"
        BY ZenonT(60), <4>2, <4>3, <2>8
      <4>5. page[c] \in used_map'
        BY ZenonT(60), <4>2, <2>0
      <4> QED BY ZenonT(60), <4>1, <4>4, <4>5
    <3>4. ASSUME NEW c \in Threads, Scanned(c)'
          PROVE  page'[c] \notin used_map'
      <4>1. CASE c = me
        <5>1. page'[c] = LowestFree
          BY ZenonT(60), <4>1, <2>5
        <5>2. LowestFree \notin used_map
          BY ZenonT(60), <2>3, <2>6
        <5>3. used_map' = used_map
          BY <2>0
        <5> QED BY ZenonT(60), <5>1, <5>2, <5>3
      <4>2. CASE c # me
        <5>1. Scanned(c) /\ page'[c] = page[c]
          BY ZenonT(60), <4>2, <3>4, <2>8
        <5>2. page[c] \notin used_map
          BY ZenonT(60), <5>1, <2>1 DEF PageInv, Scanned
        <5>3. used_map' = used_map
          BY <2>0
        <5> QED BY ZenonT(60), <5>1, <5>2, <5>3
      <4> QED BY ZenonT(60), <4>1, <4>2
    <3>5. ASSUME NEW c \in Threads, TidPhase(c)'
          PROVE  page'[c] # NULL
      <4>1. CASE c = me
        BY ZenonT(60), <4>1, <3>5, <2>7
      <4>2. CASE c # me
        <5>1. TidPhase(c) /\ page'[c] = page[c]
          BY ZenonT(60), <4>2, <3>5, <2>8
        <5> QED BY ZenonT(60), <5>1, <2>1 DEF PageInv, TidPhase
      <4> QED BY ZenonT(60), <4>1, <4>2
    <3>6. ASSUME NEW c \in Threads, NEW d \in Threads,
                 HasPage(c)', HasPage(d)', page'[c] = page'[d]
          PROVE  c = d
      BY ZenonT(60), <3>6, <2>1, <2>7, <2>8 DEF PageInv
    <3> QED BY ZenonT(60), <3>1, <3>2, <3>3, <3>4, <3>5, <3>6 DEF PageInv, Scanned, TidPhase
  <2>10. VictimInv'
    <3>1. \A t \in Threads : pc[t] = "dead" => pc'[t] = "dead"
      BY ZenonT(60), <2>0, <2>2, <2>8
    <3>2. \A c \in Threads : pc'[c] = "reap" => pc[c] = "reap" /\ page'[c] = page[c]
      BY ZenonT(60), <2>5, <2>8
    <3> QED BY ZenonT(60), <3>1, <3>2, <2>0, <2>1, <1>VictimFrame
  <2>11. LockExclusion' /\ TidInv'
    <3>1. \A l \in Locks : /\ Owns(me, l) <=> l = "pool"
                           /\ Owns(me, l)' <=> l = "pool"
      BY ZenonT(60), <2>0, <2>2, <2>5 DEF Owns
    <3>2. \A l \in Locks : holder[l] = me <=> l = "pool"
      BY ZenonT(60), <3>1, <2>0, <2>1, <2>2 DEF LockExclusion
    <3>3. ~ TidRead(me)'
      BY <2>5 DEF TidRead
    <3>4. pc'[me] \in Inside
      BY ZenonT(60), <2>5 DEF Inside
    <3> QED BY ZenonT(60), <3>1, <3>2, <3>3, <3>4, <2>0, <2>5, <1>LocalLocks
  <2>12. BootInv'
    BY <2>0, <2>2, <2>5, <1>LocalBoot
  <2> QED BY <2>4, <2>9, <2>10, <2>11, <2>12 DEF IInv
(* ... or next_tid. *)
<1>ReadTidStep.
    ASSUME IInv, CriticalRead, lk[current] = "tid"
    PROVE  IInv'
  <2> USE <1>ReadTidStep
  <2>0. /\ Running /\ pc[current] = "read"
        /\ val' = [val EXCEPT ![current] = next_tid]
        /\ pc' = [pc EXCEPT ![current] = "write"]
        /\ UNCHANGED <<current, status, ready_list, thread_ticks, destruction_req, waiters,
                       sleep_list, alarm, earliest, ticks, used_map, value, holder,
                       next_tid, tid, idle_thread, lk, page, fault>>
    BY DEF CriticalRead, At, Goto, Running, alarmVars, tidVars, lockVars, schedVars
  <2>1. TypeOK /\ LockExclusion /\ TidInv
    BY <2>0 DEF IInv
  <2>2. PICK me \in Threads : me = current
    BY ZenonT(60), <2>1 DEF TypeOK
  <2>3. TypeOK'
    <3>1. val' \in [Threads -> Int]
      BY <2>0, <2>1 DEF TypeOK
    <3> QED BY ZenonT(60), <3>1, <2>0, <2>1 DEF TypeOK, Labels
  <2>4. /\ pc'[me] = "write" /\ lk'[me] = "tid" /\ page'[me] = page[me]
        /\ val'[me] = next_tid /\ OthersSame(me)
    BY ZenonT(60), <2>0, <2>1, <2>2 DEF TypeOK, OthersSame
  <2>5. PageInv' /\ VictimInv'
    BY ZenonT(60), <2>0, <2>2, <2>4, <1>LocalPages DEF HasPage, Scanned, TidPhase
  <2>6. LockExclusion'
    <3>1. \A l \in Locks : /\ Owns(me, l) <=> l = "tid"
                           /\ Owns(me, l)' <=> l = "tid"
      BY ZenonT(60), <2>0, <2>2, <2>4 DEF Owns
    <3>2. \A l \in Locks : holder[l] = me <=> l = "tid"
      BY ZenonT(60), <3>1, <2>0, <2>1, <2>2 DEF LockExclusion
    <3>3. ASSUME NEW t \in Threads, NEW l \in Locks
          PROVE  /\ Owns(t, l)' <=> Owns(t, l)
                 /\ holder'[l] = t <=> Owns(t, l)' /\ pc'[t] \in Inside
      <4>1. CASE t = me
        BY ZenonT(60), <4>1, <3>1, <3>2, <2>0, <2>4 DEF Inside
      <4>2. CASE t # me
        <5>1. (Owns(t, l)' <=> Owns(t, l)) /\ pc'[t] = pc[t]
          BY ZenonT(60), <4>2, <2>4 DEF OthersSame, Owns
        <5> QED BY ZenonT(60), <5>1, <2>0, <2>1 DEF LockExclusion, Inside
      <4> QED BY ZenonT(60), <4>1, <4>2
    <3> QED BY ZenonT(60), <3>3, <2>0, <2>1, <1>LockFrame
  <2>7. TidInv'
    <3>1. ASSUME NEW c \in Threads, TidRead(c)'
          PROVE  val'[c] = next_tid'
      <4>1. CASE c = me
        BY ZenonT(60), <4>1, <2>0, <2>4
      <4>2. CASE c # me
        BY ZenonT(60), <4>2, <3>1, <2>0, <2>1, <2>4 DEF OthersSame, TidInv, TidRead
      <4> QED BY ZenonT(60), <4>1, <4>2
    <3> QED BY ZenonT(60), <3>1, <2>0, <2>1 DEF TidInv, TidRead
  <2>8. BootInv'
    BY ZenonT(60), <2>0, <2>2, <2>4, <1>LocalBoot
  <2> QED BY ZenonT(60), <2>3, <2>5, <2>6, <2>7, <2>8 DEF IInv
(* The critical sections write: the page becomes the caller's alone ...    *)
<1>WritePoolStep.
    ASSUME IInv, CriticalWrite, lk[current] = "pool"
    PROVE  IInv'
  <2> USE <1>WritePoolStep
  <2>0. /\ Running /\ pc[current] = "write"
        /\ used_map' = used_map \cup ({page[current]} \ {NULL})
        /\ pc' = [pc EXCEPT ![current] = "clear"]
        /\ UNCHANGED <<current, status, ready_list, thread_ticks, destruction_req, waiters,
                       sleep_list, alarm, earliest, ticks, value, holder,
                       next_tid, tid, idle_thread, lk, page, val, fault>>
    BY ZenonT(60) DEF CriticalWrite, At, Goto, Running, alarmVars, tidVars, lockVars, schedVars
  <2>1. TypeOK /\ LockExclusion /\ PageInv /\ VictimInv /\ BootInv
    BY <2>0 DEF IInv
  <2>2. PICK me \in Threads : me = current
    BY ZenonT(60), <2>1 DEF TypeOK
  <2>3. TypeOK'
    BY ZenonT(60), <2>0, <2>1 DEF TypeOK, Labels
  <2>4. pc'[me] = "clear" /\ lk'[me] = "pool" /\ page' = page /\ OthersSame(me)
    BY ZenonT(60), <2>0, <2>1, <2>2 DEF TypeOK, OthersSame
  <2>5. page[me] \notin used_map /\ Owns(me, "pool")
    BY ZenonT(60), <2>0, <2>1, <2>2 DEF PageInv, Owns
  <2>6. ASSUME NEW c \in Threads, c # me
        PROVE  /\ HasPage(c)' <=> HasPage(c)
               /\ TidPhase(c)' <=> TidPhase(c)
               /\ pc'[c] = pc[c] /\ lk'[c] = lk[c]
               /\ ~ Scanned(c)
    <3>1. ~ Owns(c, "pool")
      BY ZenonT(60), <2>0, <2>1, <2>5, <2>6 DEF LockExclusion, Locks
    <3> QED BY ZenonT(60), <3>1, <2>4, <2>6 DEF OthersSame, HasPage, TidPhase, Scanned, Owns
  <2>7. \A t \in Threads : pc'[t] = "none" <=> pc[t] = "none"
    BY ZenonT(60), <2>0, <2>2, <2>4, <2>6
  <2>8. page[me] # NULL => page[me] \in Pool /\ pc[page[me]] = "none"
    BY ZenonT(60), <2>1, <2>5 DEF PageInv, TypeOK
  <2>9. PageInv'
    <3>1. pc'[Main] # "none"
      BY ZenonT(60), <2>1, <2>7, PoolFacts DEF PageInv
    <3>2. \A t \in Pool : pc'[t] # "none" => t \in used_map'
      BY ZenonT(60), <2>0, <2>1, <2>7, PoolFacts DEF PageInv
    <3>3. ASSUME NEW c \in Threads, HasPage(c)'
          PROVE  page'[c] \in used_map' /\ pc'[page'[c]] = "none"
      <4>1. CASE c = me
        <5>1. page[me] # NULL
          BY ZenonT(60), <3>3, <4>1, <2>4 DEF HasPage
        <5> QED BY ZenonT(60), <5>1, <4>1, <2>0, <2>2, <2>4, <2>7, <2>8, PoolFacts
      <4>2. CASE c # me
        <5>1. page[c] \in used_map /\ pc[page[c]] = "none"
          BY ZenonT(60), <3>3, <4>2, <2>1, <2>6 DEF PageInv
        <5>2. page[c] \in Threads
          BY ZenonT(60), <5>1, <2>1, PoolFacts DEF TypeOK
        <5> QED BY ZenonT(60), <5>1, <5>2, <2>0, <2>4, <2>7
      <4> QED BY ZenonT(60), <4>1, <4>2
    <3>4. ASSUME NEW c \in Threads PROVE ~ Scanned(c)'
      BY ZenonT(60), <2>4, <2>6 DEF Scanned
    <3>5. ASSUME NEW c \in Threads, TidPhase(c)'
          PROVE  page'[c] # NULL
      <4>1. c # me
        BY ZenonT(60), <3>5, <2>4 DEF TidPhase
      <4> QED BY ZenonT(60), <4>1, <3>5, <2>1, <2>4, <2>6 DEF PageInv, TidPhase
    <3>6. ASSUME NEW c \in Threads, NEW d \in Threads,
                 HasPage(c)', HasPage(d)', page'[c] = page'[d]
          PROVE  c = d
      <4>1. ASSUME NEW e \in Threads, e # me, HasPage(e)'
            PROVE  page[e] # page[me] /\ HasPage(e)
        BY ZenonT(60), <4>1, <2>1, <2>5, <2>6 DEF PageInv
      <4> QED BY ZenonT(60), <3>6, <4>1, <2>1, <2>4 DEF PageInv
    <3> QED BY ZenonT(60), <3>1, <3>2, <3>3, <3>4, <3>5, <3>6 DEF PageInv, Scanned, TidPhase
  <2>10. VictimInv'
    <3>1. \A t \in Threads : pc[t] = "dead" => pc'[t] = "dead"
      BY ZenonT(60), <2>0, <2>2, <2>6
    <3>2. \A c \in Threads : pc'[c] = "reap" => pc[c] = "reap" /\ page'[c] = page[c]
      BY ZenonT(60), <2>4, <2>6
    <3> QED BY ZenonT(60), <3>1, <3>2, <2>0, <2>1, <1>VictimFrame
  <2>11. LockExclusion' /\ TidInv'
    <3>1. \A l \in Locks : /\ Owns(me, l) <=> l = "pool"
                           /\ Owns(me, l)' <=> l = "pool"
      BY ZenonT(60), <2>0, <2>2, <2>4 DEF Owns
    <3>2. \A l \in Locks : holder[l] = me <=> l = "pool"
      BY ZenonT(60), <3>1, <2>0, <2>1, <2>2 DEF LockExclusion
    <3>3. ~ TidRead(me)'
      BY ZenonT(60), <2>4 DEF TidRead
    <3>4. pc'[me] \in Inside
      BY ZenonT(60), <2>4 DEF Inside
    <3> QED BY ZenonT(60), <3>1, <3>2, <3>3, <3>4, <2>0, <2>4, <1>LocalLocks
  <2>12. BootInv'
    BY ZenonT(60), <2>0, <2>2, <2>4, <1>LocalBoot
  <2> QED BY <2>3, <2>9, <2>10, <2>11, <2>12 DEF IInv
(* ... and the tid is new. *)
<1>WriteTidStep.
    ASSUME IInv, CriticalWrite, lk[current] = "tid"
    PROVE  IInv'
  <2> USE <1>WriteTidStep
  <2>0. /\ Running /\ pc[current] = "write"
        /\ next_tid' = val[current] + 1
        /\ tid' = [tid EXCEPT ![page[current]] = val[current]]
        /\ val' = [val EXCEPT ![current] = 0]
        /\ pc' = [pc EXCEPT ![current] = "clear"]
        /\ UNCHANGED <<current, status, ready_list, thread_ticks, destruction_req, waiters,
                       sleep_list, alarm, earliest, ticks, used_map, value, holder,
                       idle_thread, lk, page, fault>>
    BY ZenonT(60) DEF CriticalWrite, allocate_tid, At, Goto, Running, alarmVars, lockVars, schedVars
  <2>1. TypeOK /\ LockExclusion /\ TidInv /\ PageInv
    BY ZenonT(60), <2>0 DEF IInv
  <2>2. PICK me \in Threads : me = current
    BY ZenonT(60), <2>1 DEF TypeOK
  <2>3. val[me] = next_tid /\ next_tid \in Nat /\ page[me] \in Pool
    BY ZenonT(60), <2>0, <2>1, <2>2 DEF TidInv, PageInv, TypeOK
  <2>4. TypeOK'
    <3>0. val[current] \in Nat /\ tid \in [Threads -> Nat]
      BY <2>1, <2>2, <2>3 DEF TypeOK
    <3>1. next_tid' \in Nat
      BY <3>0, <2>0
    <3>4. tid' \in [Threads -> Nat]
      BY ZenonT(60), <3>0, <2>0
    <3>2. val' \in [Threads -> Int]
      <4>1. 0 \in Int
        OBVIOUS
      <4> QED BY ZenonT(60), <4>1, <2>0, <2>1 DEF TypeOK
    <3>3. pc' \in [Threads -> Labels]
      BY ZenonT(60), <2>0, <2>1 DEF TypeOK, Labels
    <3> QED BY ZenonT(60), <3>1, <3>2, <3>3, <3>4, <2>0, <2>1 DEF TypeOK
  <2>5. /\ pc'[me] = "clear" /\ lk'[me] = "tid" /\ page'[me] = page[me] /\ OthersSame(me)
    BY ZenonT(60), <2>0, <2>1, <2>2 DEF TypeOK, OthersSame
  <2>6. PageInv' /\ VictimInv'
    BY ZenonT(60), <2>0, <2>2, <2>5, <1>LocalPages DEF HasPage, Scanned, TidPhase
  <2>7. \A l \in Locks : /\ Owns(me, l) <=> l = "tid"
                         /\ Owns(me, l)' <=> l = "tid"
    BY ZenonT(60), <2>0, <2>2, <2>5 DEF Owns
  <2>8. ASSUME NEW c \in Threads, c # me
        PROVE  /\ \A l \in Locks : Owns(c, l)' <=> Owns(c, l)
               /\ pc'[c] = pc[c] /\ ~ TidRead(c)'
    <3>1. "tid" \in Locks
      BY DEF Locks
    <3>2. Owns(me, "tid")
      BY ZenonT(60), <2>7, <3>1
    <3>3. ~ Owns(c, "tid")
      BY ZenonT(60), <2>0, <2>1, <2>8, <3>1, <3>2 DEF LockExclusion
    <3> QED BY <3>3, <2>5, <2>8 DEF OthersSame, Owns, TidRead
  <2>9. LockExclusion'
    <3>1. \A l \in Locks : holder[l] = me <=> l = "tid"
      BY ZenonT(60), <2>7, <2>0, <2>1, <2>2 DEF LockExclusion
    <3>2. ASSUME NEW t \in Threads, NEW l \in Locks
          PROVE  /\ Owns(t, l)' <=> Owns(t, l)
                 /\ holder'[l] = t <=> Owns(t, l)' /\ pc'[t] \in Inside
      <4>1. CASE t = me
        BY ZenonT(60), <4>1, <3>1, <2>7, <2>0, <2>5 DEF Inside
      <4>2. CASE t # me
        BY ZenonT(60), <4>2, <2>8, <2>0, <2>1 DEF LockExclusion, Inside
      <4> QED BY ZenonT(60), <4>1, <4>2
    <3> QED BY ZenonT(60), <3>2, <2>0, <2>1, <1>LockFrame
  <2>10. TidInv'
    <3>1. ~ TidRead(me)'
      BY ZenonT(60), <2>5 DEF TidRead
    <3>2. \A c \in Threads : ~ TidRead(c)'
      BY ZenonT(60), <3>1, <2>8
    <3>3. next_tid' = next_tid + 1
          /\ \A t \in Threads : tid'[t] = IF t = page[me] THEN next_tid ELSE tid[t]
      BY ZenonT(60), <2>0, <2>1, <2>2, <2>3 DEF TypeOK
    <3>4. \A t \in Threads : tid[t] \in Nat /\ tid[t] < next_tid
      BY <2>1 DEF TypeOK, TidInv
    <3>5. \A t \in Threads : tid'[t] < next_tid'
      BY <3>3, <3>4, <2>3
    <3>6. ASSUME NEW t \in Threads, NEW u \in Threads, tid'[t] = tid'[u], tid'[t] # 0
          PROVE  t = u
      <4>1. tid[t] = tid[u] /\ tid[t] # 0 => t = u
        BY ZenonT(60), <2>1 DEF TidInv
      <4>2. t # page[me] /\ u # page[me] => tid[t] = tid[u] /\ tid[t] # 0
        BY ZenonT(60), <3>3, <3>6
      <4>3. t = page[me] <=> u = page[me]
        BY <3>3, <3>4, <3>6
      <4> QED BY ZenonT(60), <4>1, <4>2, <4>3
    <3> QED BY ZenonT(60), <3>2, <3>5, <3>6 DEF TidInv, TidRead
  <2>11. BootInv'
    BY ZenonT(60), <2>0, <2>2, <2>5, <1>LocalBoot
  <2> QED BY <2>4, <2>6, <2>9, <2>10, <2>11 DEF IInv
(* sema_up, in every use the scheduler makes of it: the semaphore of a lock *)
(* that its holder gives back, and idle_started.                            *)
<1>SemaUpTypes.
    ASSUME IInv, sema_up
    PROVE  /\ TypeOK'
           /\ Elems(ready_list) \subseteq Elems(ready_list')
  (* sema_up moves at most one thread from the wait list to the run queue.   *)
  <2>UnblockedFacts.
      ASSUME TypeOK, NEW s \in Semas
      PROVE  /\ Rest(waiters[s], Len(Unblocked(s))) \in Seq(Threads)
             /\ ready_list \o Unblocked(s) \in Seq(Threads)
             /\ Elems(ready_list) \subseteq Elems(ready_list \o Unblocked(s))
    <3> USE <2>UnblockedFacts
    <3>1. waiters[s] \in Seq(Threads) /\ ready_list \in Seq(Threads)
      BY DEF TypeOK
    <3>2. /\ Unblocked(s) \in Seq(Threads)
          /\ Len(Unblocked(s)) \in 0..Len(waiters[s])
      <4>1. CASE waiters[s] = <<>>
        BY <4>1, <3>1, SeqEmpty DEF Unblocked
      <4>2. CASE waiters[s] # <<>>
        <5>1. Head(waiters[s]) \in Threads /\ Len(waiters[s]) \in Nat \ {0}
          BY <4>2, <3>1, SeqEmpty
        <5> QED BY <4>2, <5>1 DEF Unblocked
      <4> QED BY <4>1, <4>2
    <3>3. PICK n \in 0..Len(waiters[s]) : n = Len(Unblocked(s))
      BY <3>2
    <3>4. Rest(waiters[s], n) \in Seq(Threads)
      BY ZenonT(60), <3>1, ElemsPopped
    <3> QED BY <3>1, <3>2, <3>3, <3>4, ElemsConcat
  <2> USE <1>SemaUpTypes
  <2>0. /\ Running /\ pc[current] = "up"
        /\ value' = [value EXCEPT ![lk[current]] = @ + 1]
        /\ waiters' = [waiters EXCEPT ![lk[current]]
                         = Rest(waiters[lk[current]], Len(Unblocked(lk[current])))]
        /\ ready_list' = ready_list \o Unblocked(lk[current])
        /\ UNCHANGED <<current, thread_ticks, destruction_req, sleep_list, earliest,
                       ticks, used_map, holder, next_tid, idle_thread, page, val, fault>>
    BY DEF sema_up, At, Running
  <2>1. TypeOK
    BY DEF IInv
  <2>2. PICK s \in Semas : s = lk[current]
    BY <2>1 DEF TypeOK
  <2>3. /\ waiters' \in [Semas -> Seq(Threads)]
        /\ ready_list' \in Seq(Threads)
        /\ Elems(ready_list) \subseteq Elems(ready_list')
    <3>1. /\ Rest(waiters[s], Len(Unblocked(s))) \in Seq(Threads)
          /\ ready_list \o Unblocked(s) \in Seq(Threads)
          /\ Elems(ready_list) \subseteq Elems(ready_list \o Unblocked(s))
      BY <2>1, <2>UnblockedFacts
    <3>2. waiters \in [Semas -> Seq(Threads)]
      BY <2>1 DEF TypeOK
    <3> QED BY ZenonT(60), <3>1, <3>2, <2>0, <2>2
  <2>4. value' \in [Semas -> Nat]
    <3>1. value \in [Semas -> Nat]
      BY ZenonT(60), <2>1 DEF TypeOK
    <3>2. value' = [value EXCEPT ![s] = value[s] + 1]
      BY ZenonT(60), <2>0, <2>2
    <3>3. value[s] \in Nat
      BY ZenonT(60), <3>1
    <3>4. value[s] + 1 \in Nat
      BY <3>3
    <3> QED BY ZenonT(60), <3>1, <3>2, <3>4
  <2> DEFINE st == [t \in Threads |-> IF t \in Elems(Unblocked(lk[current]))
                                      THEN "READY" ELSE status[t]]
  <2>5. st \in [Threads -> Statuses]
    BY <2>1 DEF TypeOK, Statuses
  <2>6. status' \in [Threads -> Statuses]
    <3>1. status' = st \/ status' = [st EXCEPT ![page[current]] = "BLOCKED"]
      BY DEF sema_up, init_thread
    <3> HIDE DEF st
    <3> QED BY <3>1, <2>5 DEF Statuses
  <2>7. /\ pc' \in [Threads -> Labels] /\ lk' \in [Threads -> Semas]
    <3>1. PICK l \in {"down", "run", "insert", "idle_block"} :
            pc' = [pc EXCEPT ![current] = l]
      BY DEF sema_up, Goto
    <3>2. lk' = lk \/ lk' = [lk EXCEPT ![current] = "tid"]
      BY DEF sema_up
    <3>3. pc' \in [Threads -> Labels]
      BY ZenonT(60), <3>1, <2>1 DEF TypeOK, Labels
    <3> QED BY ZenonT(60), <3>2, <3>3, <2>1 DEF TypeOK, Semas, Locks
  <2>8. alarm' \in [Threads -> Int] /\ tid' \in [Threads -> Nat]
    <3>1. alarm' = alarm \/ alarm' = [alarm EXCEPT ![page[current]] = 0]
      BY DEF sema_up, init_thread
    <3>2. tid' = tid \/ tid' = [tid EXCEPT ![page[current]] = 0]
      BY DEF sema_up, init_thread
    <3>3. alarm' \in [Threads -> Int]
      <4>1. alarm \in [Threads -> Int]
        BY ZenonT(60), <2>1 DEF TypeOK
      <4> QED BY <4>1, <3>1
    <3>4. tid' \in [Threads -> Nat]
      <4>1. tid \in [Threads -> Nat]
        BY <2>1 DEF TypeOK
      <4> QED BY <3>2, <4>1
    <3> QED BY <3>3, <3>4
  <2> QED BY ZenonT(60), <2>0, <2>1, <2>3, <2>4, <2>6, <2>7, <2>8 DEF TypeOK
(* A lock's semaphore goes up after its holder has been cleared: the lock  *)
(* is free again.                                                          *)
<1>ReleasedLock.
    ASSUME NEW me \in Threads, NEW s \in Locks, IInv, Running, OthersSame(me),
           Owns(me, s), pc[me] = "up", pc'[me] \in {"run", "down", "insert"},
           value' = [value EXCEPT ![s] = @ + 1], holder' = holder
    PROVE  LockExclusion'
  <2> USE <1>ReleasedLock
  <2>1. TypeOK /\ LockExclusion
    BY ZenonT(60) DEF IInv
  <2>2. ASSUME NEW t \in Threads, NEW l \in Locks
        PROVE  Owns(t, l)' <=> Owns(t, l) /\ t # me
    BY ZenonT(60), <2>2 DEF Owns, OthersSame
  <2>3. s \in Semas /\ value[s] = 0 /\ \A l \in Locks : l # s => ~ Owns(me, l)
    BY ZenonT(60), <2>1 DEF LockExclusion, Owns, Semas
  <2>4. \A l \in Locks : value'[l] = IF l = s THEN 1 ELSE value[l]
    <3>1. value' \in [Semas -> {value'[r] : r \in Semas}] /\ Locks \subseteq Semas
      BY ZenonT(60), <2>1 DEF TypeOK, Semas
    <3>2. \A l \in Locks : value'[l] = IF l = s THEN value[s] + 1 ELSE value[l]
      BY ZenonT(60), <2>1, <3>1 DEF TypeOK
    <3>3. value[s] + 1 = 1
      BY <2>3
    <3> QED BY ZenonT(60), <3>2, <3>3
  <2>5. ASSUME NEW l \in Locks, NEW t \in Threads, NEW u \in Threads,
               Owns(t, l)', Owns(u, l)'
        PROVE  t = u
    BY ZenonT(60), <2>1, <2>2, <2>5 DEF LockExclusion
  <2>6. ASSUME NEW l \in Locks
        PROVE  value'[l] = IF \E t \in Threads : Owns(t, l)' THEN 0 ELSE 1
    <3>1. CASE l = s
      <4>1. \A t \in Threads : ~ Owns(t, l)'
        BY ZenonT(60), <3>1, <2>1, <2>2 DEF LockExclusion
      <4> QED BY ZenonT(60), <3>1, <4>1, <2>4
    <3>2. CASE l # s
      <4>1. \A t \in Threads : Owns(t, l)' <=> Owns(t, l)
        BY ZenonT(60), <3>2, <2>2, <2>3
      <4>2. value[l] = IF \E t \in Threads : Owns(t, l) THEN 0 ELSE 1
        BY ZenonT(60), <2>1 DEF LockExclusion
      <4>3. value'[l] = value[l]
        BY ZenonT(60), <3>2, <2>4
      <4> QED BY ZenonT(60), <4>1, <4>2, <4>3
    <3> QED BY ZenonT(60), <3>1, <3>2
  <2>7. ASSUME NEW l \in Locks, NEW t \in Threads
        PROVE  holder'[l] = t <=> Owns(t, l)' /\ pc'[t] \in {"read", "write", "clear"}
    <3>1. CASE t = me
      BY ZenonT(60), <3>1, <2>1, <2>2 DEF LockExclusion
    <3>2. CASE t # me
      <4>1. holder[l] = t <=> Owns(t, l) /\ pc[t] \in {"read", "write", "clear"}
        BY ZenonT(60), <2>1 DEF LockExclusion
      <4>2. pc'[t] = pc[t]
        BY ZenonT(60), <3>2 DEF OthersSame
      <4> QED BY ZenonT(60), <4>1, <4>2, <3>2, <2>2
    <3> QED BY ZenonT(60), <3>1, <3>2
  <2> QED BY ZenonT(60), <2>5, <2>6, <2>7 DEF LockExclusion
(* sema_up preserves the invariant, whoever calls it and for which semaphore. *)
<1>SemaUpStep.
    ASSUME IInv, sema_up
    PROVE  IInv'
  <2> USE <1>SemaUpStep
  <2>0. /\ Running /\ pc[current] = "up"
        /\ value' = [value EXCEPT ![lk[current]] = @ + 1]
        /\ UNCHANGED <<current, thread_ticks, destruction_req, sleep_list, earliest,
                       ticks, used_map, holder, next_tid, idle_thread, page, val, fault>>
    BY DEF sema_up, At, Running
  <2>1. TypeOK /\ LockExclusion /\ PageInv /\ TidInv
    BY <2>0 DEF IInv
  <2>2. PICK me \in Threads : me = current
    BY <2>1 DEF TypeOK
  <2>3. TypeOK' /\ Elems(ready_list) \subseteq Elems(ready_list')
    BY <1>SemaUpTypes
  <2>4. \/ /\ lk[me] = "pool" /\ page[me] # NULL
           /\ pc' = [pc EXCEPT ![me] = "down"] /\ lk' = [lk EXCEPT ![me] = "tid"]
           /\ tid' = [tid EXCEPT ![page[me]] = 0]
        \/ /\ lk[me] = "pool" /\ page[me] = NULL
           /\ pc' = [pc EXCEPT ![me] = "run"] /\ lk' = lk /\ tid' = tid
        \/ /\ lk[me] = "tid" /\ page[me] # NULL
           /\ pc' = [pc EXCEPT ![me] = "insert"] /\ lk' = lk /\ tid' = tid
        \/ /\ lk[me] = "idle"
           /\ pc' = [pc EXCEPT ![me] = "idle_block"] /\ lk' = lk /\ tid' = tid
    <3>1. lk[me] \in {"pool", "tid", "idle"}
      BY <2>1 DEF TypeOK, Semas, Locks
    <3>2. lk[me] = "tid" => page[me] # NULL
      BY ZenonT(60), <2>0, <2>1, <2>2 DEF PageInv
    <3> QED BY <3>1, <3>2, <2>2 DEF sema_up, init_thread, Goto
  <2>5. /\ OthersSame(me)
        /\ pc'[me] \in {"down", "run", "insert", "idle_block"}
        /\ page'[me] = page[me]
    BY ZenonT(60), <2>0, <2>1, <2>4 DEF TypeOK, OthersSame
  <2>6. PageInv' /\ VictimInv'
    <3>1. lk'[me] = IF lk[me] = "pool" /\ page[me] # NULL THEN "tid" ELSE lk[me]
      BY ZenonT(60), <2>1, <2>4 DEF TypeOK
    <3>2. /\ HasPage(me)' => HasPage(me)
          /\ ~ Scanned(me)'
          /\ TidPhase(me)' => HasPage(me)
      BY ZenonT(60), <3>1, <2>0, <2>1, <2>2, <2>4, <2>5 DEF TypeOK, HasPage, Scanned, TidPhase
    <3> QED BY ZenonT(60), <3>2, <2>0, <2>2, <2>5, <1>LocalPages
  <2>7. LockExclusion'
    <3>1. CASE lk[me] = "idle"
      <4>1. lk'[me] = "idle" /\ pc'[me] = "idle_block"
        BY ZenonT(60), <3>1, <2>1, <2>4 DEF TypeOK
      <4>2. \A t \in Threads, l \in Locks : Owns(t, l)' <=> Owns(t, l)
        BY ZenonT(60), <3>1, <4>1, <2>5 DEF Owns, OthersSame, Locks
      <4>3. \A l \in Locks : value'[l] = value[l]
        BY ZenonT(60), <3>1, <2>0, <2>1, <2>2 DEF TypeOK, Semas, Locks
      <4>4. \A t \in Threads, l \in Locks : holder'[l] = t <=> Owns(t, l)' /\ pc'[t] \in Inside
        <5> SUFFICES ASSUME NEW t \in Threads, NEW l \in Locks
                     PROVE  holder'[l] = t <=> Owns(t, l)' /\ pc'[t] \in Inside
          OBVIOUS
        <5>1. CASE t = me
          BY ZenonT(60), <5>1, <4>1, <2>0, <2>1, <2>2 DEF LockExclusion, Inside
        <5>2. CASE t # me
          BY ZenonT(60), <5>2, <4>2, <2>0, <2>1, <2>5 DEF LockExclusion, Inside, OthersSame
        <5> QED BY <5>1, <5>2
      <4> QED BY ZenonT(60), <4>2, <4>3, <4>4, <2>0, <2>1, <1>LockFrame
    <3>2. CASE lk[me] # "idle"
      <4>1. lk[me] \in Locks /\ Owns(me, lk[me])
        BY ZenonT(60), <3>2, <2>0, <2>1, <2>2 DEF TypeOK, Semas, Owns
      <4>2. pc'[me] \in {"run", "down", "insert"}
        BY ZenonT(60), <3>2, <2>1, <2>4 DEF TypeOK
      <4>3. value' = [value EXCEPT ![lk[me]] = @ + 1]
        BY ZenonT(60), <2>0, <2>2
      <4> QED BY ZenonT(60), <4>1, <4>2, <4>3, <2>0, <2>2, <2>5, <1>ReleasedLock
    <3> QED BY ZenonT(60), <3>1, <3>2
  <2>8. TidInv'
    <3>1. \A t \in Threads : tid'[t] = tid[t] \/ tid'[t] = 0
      BY ZenonT(60), <2>1, <2>4 DEF TypeOK
    <3>2. \A t \in Threads : tid[t] \in Nat /\ tid[t] < next_tid /\ next_tid \in Nat
      BY <2>1 DEF TypeOK, TidInv
    <3>3. \A t \in Threads : tid'[t] < next_tid'
      <4>1. SUFFICES ASSUME NEW t \in Threads PROVE tid'[t] < next_tid'
        BY ZenonT(60)
      <4>2. 0 < next_tid
        BY <3>2
      <4> QED BY ZenonT(60), <3>1, <3>2, <4>2, <2>0
    <3>4. \A t, u \in Threads : (tid'[t] = tid'[u] /\ tid'[t] # 0) => t = u
      BY ZenonT(60), <3>1, <2>1 DEF TidInv
    <3>5. \A c \in Threads : TidRead(c)' => val'[c] = next_tid'
      BY ZenonT(60), <2>0, <2>1, <2>5 DEF TidInv, TidRead, OthersSame
    <3> QED BY ZenonT(60), <3>3, <3>4, <3>5 DEF TidInv, TidRead
  <2>9. BootInv'
    BY ZenonT(60), <2>0, <2>2, <2>3, <2>5, <1>LocalBoot
  <2> QED BY ZenonT(60), <2>3, <2>6, <2>7, <2>8, <2>9 DEF IInv
(* thread_create hands its page over to the new thread, which can run.     *)
<1>ThreadUnblockStep.
    ASSUME IInv, thread_unblock
    PROVE  IInv'
  <2> USE <1>ThreadUnblockStep
  <2>0. /\ Running /\ pc[current] = "insert"
        /\ ready_list' = Append(ready_list, page[current])
        /\ status' = [status EXCEPT ![page[current]] = "READY"]
        /\ pc' = [pc EXCEPT ![current] = "run", ![page[current]] = "run"]
        /\ page' = [page EXCEPT ![current] = NULL, ![page[current]] = NULL]
        /\ val' = [val EXCEPT ![page[current]] = 0]
        /\ lk' = [lk EXCEPT ![current] = "pool", ![page[current]] = "pool"]
        /\ UNCHANGED <<current, thread_ticks, destruction_req, sleep_list, alarm, earliest,
                       ticks, used_map, value, waiters, holder, next_tid, tid,
                       idle_thread, fault>>
    BY ZenonT(60) DEF thread_unblock, At, Running, alarmVars, lockVars, tidVars
  <2>1. TypeOK /\ LockExclusion /\ PageInv /\ VictimInv /\ TidInv /\ BootInv
    BY <2>0 DEF IInv
  <2>2. PICK me \in Threads : me = current
    BY ZenonT(60), <2>1 DEF TypeOK
  <2>3. HasPage(me) /\ page[me] \in Pool /\ page[me] \in used_map /\ pc[page[me]] = "none"
    BY ZenonT(60), <2>0, <2>1, <2>2 DEF PageInv, TypeOK, HasPage
  <2>4. PICK new \in Pool : new = page[me] /\ new \in used_map /\ pc[new] = "none" /\ new # me
    BY <2>0, <2>2, <2>3
  <2>5. new \in Threads
    BY PoolFacts
  <2>6. /\ pc'[me] = "run" /\ pc'[new] = "run" /\ lk'[me] = "pool" /\ lk'[new] = "pool"
        /\ \A t \in Threads : (t # me /\ t # new) =>
              pc'[t] = pc[t] /\ lk'[t] = lk[t] /\ page'[t] = page[t] /\ val'[t] = val[t]
    BY ZenonT(60), <2>0, <2>1, <2>2, <2>4, <2>5 DEF TypeOK
  <2>7. TypeOK'
    <3>1. ready_list' \in Seq(Threads) /\ status' \in [Threads -> Statuses]
      BY ZenonT(60), <2>0, <2>1, <2>2, <2>4, <2>5, ElemsAppend DEF TypeOK, Statuses
    <3>2. pc' \in [Threads -> Labels]
      BY ZenonT(60), <2>0, <2>1 DEF TypeOK, Labels
    <3>3. page' \in [Threads -> Pool \cup {NULL}]
      BY ZenonT(60), <2>0, <2>1 DEF TypeOK
    <3>4. lk' \in [Threads -> Semas]
      BY ZenonT(60), <2>0, <2>1 DEF TypeOK, Semas, Locks
    <3>5. val' \in [Threads -> Int]
      <4>1. val \in [Threads -> Int] /\ 0 \in Int
        BY <2>1 DEF TypeOK
      <4> QED BY ZenonT(60), <4>1, <2>0
    <3> QED BY ZenonT(60), <3>1, <3>2, <3>3, <3>4, <3>5, <2>0, <2>1 DEF TypeOK
  <2>8. ASSUME NEW c \in Threads
        PROVE  /\ HasPage(c)' => HasPage(c) /\ page'[c] = page[c] /\ c # me /\ c # new
               /\ Scanned(c)' => Scanned(c) /\ page'[c] = page[c]
               /\ TidPhase(c)' => TidPhase(c) /\ page'[c] = page[c]
               /\ TidRead(c)' => TidRead(c) /\ val'[c] = val[c]
               /\ \A l \in Locks : Owns(c, l)' <=> Owns(c, l)
               /\ pc'[c] \in Inside <=> pc[c] \in Inside
               /\ pc[c] = "dead" => pc'[c] = "dead"
               /\ pc'[c] = "reap" => pc[c] = "reap" /\ page'[c] = page[c]
               /\ pc'[c] = "boot" => pc[c] = "boot"
               /\ pc[c] = "idle_init" => pc'[c] = "idle_init"
    <3>1. CASE c = me \/ c = new
      BY ZenonT(60), <3>1, <2>0, <2>2, <2>4, <2>6
         DEF HasPage, Scanned, TidPhase, TidRead, Owns, Inside
    <3>2. CASE c # me /\ c # new
      BY ZenonT(60), <3>2, <2>6 DEF HasPage, Scanned, TidPhase, TidRead, Owns, Inside
    <3> QED BY ZenonT(60), <3>1, <3>2
  <2>9. PageInv'
    <3>0. used_map' = used_map
      BY <2>0
    <3>1. pc'[Main] # "none"
      BY ZenonT(60), <2>1, <2>6, PoolFacts DEF PageInv
    <3>2. ASSUME NEW t \in Pool, pc'[t] # "none"
          PROVE  t \in used_map'
      <4>1. CASE t = new
        BY ZenonT(60), <4>1, <3>0, <2>4
      <4>2. CASE t # new
        <5>1. pc[t] # "none"
          BY ZenonT(60), <3>2, <4>2, <2>0, <2>2, <2>6, PoolFacts
        <5> QED BY ZenonT(60), <5>1, <3>0, <2>1 DEF PageInv
      <4> QED BY <4>1, <4>2
    <3>3. ASSUME NEW c \in Threads, HasPage(c)'
          PROVE  page'[c] \in used_map' /\ pc'[page'[c]] = "none"
      <4>1. HasPage(c) /\ page'[c] = page[c] /\ c # me
        BY ZenonT(60), <3>3, <2>8
      <4>2. page[c] \in used_map /\ pc[page[c]] = "none" /\ page[c] # new
        BY ZenonT(60), <4>1, <2>1, <2>3, <2>4 DEF PageInv
      <4>3. page[c] \in Threads /\ page[c] # me
        BY ZenonT(60), <4>2, <2>0, <2>1, <2>2, PoolFacts DEF TypeOK
      <4>4. pc'[page[c]] = pc[page[c]]
        BY ZenonT(60), <4>2, <4>3, <2>6
      <4> QED BY <4>1, <4>2, <4>4, <3>0
    <3>4. ASSUME NEW c \in Threads
          PROVE  /\ Scanned(c)' => page'[c] \notin used_map'
                 /\ TidPhase(c)' => page'[c] # NULL
      <4>1. Scanned(c) => page[c] \notin used_map
        BY ZenonT(60), <2>1 DEF PageInv, Scanned
      <4>2. TidPhase(c) => page[c] # NULL
        BY ZenonT(60), <2>1 DEF PageInv, TidPhase
      <4> QED BY ZenonT(60), <4>1, <4>2, <3>0, <2>8
    <3>5. ASSUME NEW c \in Threads, NEW d \in Threads,
                 HasPage(c)', HasPage(d)', page'[c] = page'[d]
          PROVE  c = d
      <4>1. HasPage(c) /\ HasPage(d) /\ page[c] = page[d]
        BY ZenonT(60), <3>5, <2>8
      <4> QED BY ZenonT(60), <4>1, <2>1 DEF PageInv
    <3> QED BY ZenonT(60), <3>1, <3>2, <3>3, <3>4, <3>5 DEF PageInv, Scanned, TidPhase
  <2>10. VictimInv'
    BY ZenonT(60), <2>0, <2>1, <2>8, <1>VictimFrame
  <2>11. LockExclusion'
    <3>1. \A t \in Threads, l \in Locks : holder'[l] = t <=> Owns(t, l)' /\ pc'[t] \in Inside
      BY ZenonT(60), <2>0, <2>1, <2>8 DEF LockExclusion, Inside
    <3> QED BY ZenonT(60), <3>1, <2>0, <2>1, <2>8, <1>LockFrame
  <2>12. TidInv'
    BY ZenonT(60), <2>0, <2>1, <2>8, <1>TidFrame
  <2>13. BootInv'
    <3>1. pc[Main] # "boot"
      BY ZenonT(60), <2>0, <2>1 DEF BootInv
    <3>2. \A t \in Pool : pc[t] = "idle_init" => pc'[t] = "idle_init"
      BY ZenonT(60), <2>8, PoolFacts
    <3>3. Elems(ready_list') = Elems(ready_list) \cup {new}
      <4>1. ready_list' = Append(ready_list, new) /\ ready_list \in Seq(Threads)
        BY ZenonT(60), <2>0, <2>1, <2>2, <2>4 DEF TypeOK
      <4> QED BY <4>1, <2>5, ElemsAppend
    <3> QED BY ZenonT(60), <3>1, <3>2, <3>3, <2>0, <2>1, <2>8, <1>BootFrame
  <2> QED BY ZenonT(60), <2>7, <2>9, <2>10, <2>11, <2>12, <2>13 DEF IInv
(* The idle thread registers itself: from here on schedule() has a thread   *)
(* to fall back on.                                                         *)
<1>IdleInitStep.
    ASSUME IInv, idle_init
    PROVE  IInv'
  <2> USE <1>IdleInitStep
  <2>0. /\ Running /\ pc[current] = "idle_init"
        /\ idle_thread' = current
        /\ pc' = [pc EXCEPT ![current] = "up"]
        /\ lk' = [lk EXCEPT ![current] = "idle"]
        /\ UNCHANGED <<current, status, ready_list, thread_ticks, destruction_req,
                       sleep_list, alarm, earliest, ticks, used_map, value, waiters,
                       holder, next_tid, tid, page, val, fault>>
    BY DEF idle_init, At, Goto, Running, schedVars, alarmVars, lockVars, tidVars
  <2>1. TypeOK /\ LockExclusion /\ BootInv
    BY <2>0 DEF IInv
  <2>2. PICK me \in Threads : me = current
    BY ZenonT(60), <2>1 DEF TypeOK
  <2>3. TypeOK'
    <3>1. pc' \in [Threads -> Labels]
      BY ZenonT(60), <2>0, <2>1 DEF TypeOK, Labels
    <3>2. lk' \in [Threads -> Semas]
      BY ZenonT(60), <2>0, <2>1 DEF TypeOK, Semas, Locks
    <3> QED BY ZenonT(60), <3>1, <3>2, <2>0, <2>1 DEF TypeOK
  <2>4. pc'[me] = "up" /\ lk'[me] = "idle" /\ OthersSame(me)
    BY ZenonT(60), <2>0, <2>1, <2>2 DEF TypeOK, OthersSame
  <2>5. PageInv' /\ VictimInv'
    BY ZenonT(60), <2>0, <2>2, <2>4, <1>LocalPages DEF HasPage, Scanned, TidPhase
  <2>6. LockExclusion' /\ TidInv'
    <3>1. \A l \in Locks : holder[l] # me
      BY ZenonT(60), <2>0, <2>1, <2>2 DEF LockExclusion
    <3>2. \A l \in Locks : ~ Owns(me, l) /\ ~ Owns(me, l)'
      BY <2>0, <2>2, <2>4 DEF Owns, Locks
    <3> QED BY ZenonT(60), <3>1, <3>2, <2>0, <2>2, <2>4, <1>LocalLocks DEF TidRead
  <2>7. BootInv'
    <3>1. idle_thread' # NULL
      BY ZenonT(60), <2>0, <2>2, PoolFacts
    <3>2. \A t \in Threads : pc'[t] # "boot"
      <4>1. pc[Main] # "boot"
        BY ZenonT(60), <2>0, <2>1 DEF BootInv
      <4> QED BY ZenonT(60), <4>1, <2>1, <2>4 DEF BootInv, OthersSame
    <3> QED BY <3>1, <3>2, PoolFacts DEF BootInv
  <2> QED BY <2>3, <2>5, <2>6, <2>7 DEF IInv
(* The idle thread blocks.                                                 *)
<1>IdleStep.
    ASSUME IInv, idle
    PROVE  IInv'
  <2> USE <1>IdleStep
  <2>0. /\ Running /\ pc[current] = "idle_block"
        /\ pc' = [pc EXCEPT ![current] = "idle_hlt"]
        /\ thread_block
        /\ UNCHANGED <<sleep_list, alarm, earliest, ticks, used_map, value, waiters,
                       holder, next_tid, tid, idle_thread, lk, page, val, fault>>
    BY DEF idle, At, Goto, Running, alarmVars, lockVars, tidVars, locVars
  <2>1. TypeOK /\ LockExclusion
    BY <2>0 DEF IInv
  <2>2. PICK me \in Threads : me = current
    BY <2>1 DEF TypeOK
  <2>3. /\ current' \in Threads /\ status' \in [Threads -> Statuses]
        /\ ready_list' \in Seq(Threads) /\ thread_ticks' \in 0..(TIME_SLICE - 1)
        /\ destruction_req' = destruction_req
        /\ Elems(ready_list) \subseteq {current'} \cup Elems(ready_list')
    BY ZenonT(60), <2>0, BlockFacts
  <2>4. TypeOK'
    <3>1. pc' \in [Threads -> Labels]
      BY ZenonT(60), <2>0, <2>1 DEF TypeOK, Labels
    <3> QED BY ZenonT(60), <3>1, <2>0, <2>1, <2>3 DEF TypeOK
  <2>5. pc'[me] = "idle_hlt" /\ OthersSame(me)
    BY ZenonT(60), <2>0, <2>1, <2>2 DEF TypeOK, OthersSame
  <2>6. PageInv' /\ VictimInv'
    BY ZenonT(60), <2>0, <2>2, <2>3, <2>5, <1>LocalPages DEF HasPage, Scanned, TidPhase
  <2>7. LockExclusion' /\ TidInv'
    <3>1. \A l \in Locks : holder[l] # me
      BY ZenonT(60), <2>0, <2>1, <2>2 DEF LockExclusion
    <3> QED BY ZenonT(60), <3>1, <2>0, <2>2, <2>5, <1>LocalLocks DEF Owns, TidRead, Inside
  <2>8. BootInv'
    BY <2>0, <2>2, <2>3, <2>5, <1>LocalBoot
  <2> QED BY <2>4, <2>6, <2>7, <2>8 DEF IInv
(* thread_start, alone on the machine, creates the idle thread.            *)
<1>ThreadStartStep.
    ASSUME IInv, thread_start
    PROVE  IInv'
  <2> USE <1>ThreadStartStep
  <2> DEFINE p == Least(Pool \ used_map)
  <2>0. /\ Running /\ pc[current] = "boot"
        /\ used_map' = used_map \cup {p}
        /\ status' = [status EXCEPT ![p] = "READY"]
        /\ ready_list' = Append(ready_list, p)
        /\ tid' = [tid EXCEPT ![p] = next_tid]
        /\ pc' = [pc EXCEPT ![Main] = "down", ![p] = "idle_init"]
        /\ next_tid' = next_tid + 1
        /\ lk' = [lk EXCEPT ![Main] = "idle"]
        /\ UNCHANGED <<current, thread_ticks, destruction_req, sleep_list, alarm, earliest,
                       ticks, value, waiters, holder, idle_thread, page, val, fault>>
    BY ZenonT(60) DEF thread_start, At, Running, alarmVars, lockVars
  <2>1. TypeOK /\ LockExclusion /\ TidInv /\ BootInv
    BY ZenonT(60), <2>0 DEF IInv
  <2>2. /\ current = Main /\ pc[Main] = "boot" /\ used_map = {} /\ destruction_req = <<>>
        /\ \A t \in Pool : pc[t] = "none"
    BY ZenonT(60), <2>0, <2>1 DEF BootInv, TypeOK
  <2>3. p \in Pool
    <3>1. Pool \ used_map = Pool /\ 1 \in Pool /\ \A t \in Pool : 1 <= t
      BY <2>2, PoolFacts DEF Pool
    <3> QED BY ZenonT(60), <3>1, MinIsLeast
  <2> HIDE DEF p
  <2>4. p \in Threads /\ p # Main
    BY <2>3, PoolFacts
  <2>5. TypeOK'
    <3>1. ready_list' \in Seq(Threads)
      BY ZenonT(60), <2>0, <2>1, <2>4, ElemsAppend DEF TypeOK
    <3>2. status' \in [Threads -> Statuses] /\ pc' \in [Threads -> Labels]
      BY ZenonT(60), <2>0, <2>1 DEF TypeOK, Statuses, Labels
    <3>3. next_tid' \in Nat
      BY ZenonT(60), <2>0, <2>1, Counting DEF TypeOK
    <3>4. tid' \in [Threads -> Nat]
      BY ZenonT(60), <2>0, <2>1 DEF TypeOK
    <3>5. lk' \in [Threads -> Semas]
      BY ZenonT(60), <2>0, <2>1 DEF TypeOK, Semas
    <3>6. used_map' \subseteq Pool
      BY ZenonT(60), <2>0, <2>2, <2>3
    <3> QED BY ZenonT(60), <3>1, <3>2, <3>3, <3>4, <3>5, <3>6, <2>0, <2>1 DEF TypeOK
  <2>6. /\ pc'[Main] = "down" /\ lk'[Main] = "idle" /\ pc'[p] = "idle_init"
        /\ \A t \in Threads : (t # Main /\ t # p) => pc'[t] = "none"
    BY ZenonT(60), <2>0, <2>1, <2>2, <2>4, PoolFacts DEF TypeOK
  <2>7. \A t \in Threads : /\ ~ HasPage(t)' /\ ~ Scanned(t)' /\ ~ TidPhase(t)' /\ ~ TidRead(t)'
                           /\ \A l \in Locks : ~ Owns(t, l)'
                           /\ pc'[t] \notin {"reap", "boot"}
    BY ZenonT(60), <2>6, PoolFacts DEF HasPage, Scanned, TidPhase, TidRead, Owns
  <2>8. PageInv'
    <3>1. used_map' = {p}
      BY ZenonT(60), <2>0, <2>2
    <3>2. \A t \in Pool : pc'[t] # "none" => t \in used_map'
      BY ZenonT(60), <3>1, <2>6, PoolFacts
    <3> QED BY ZenonT(60), <3>2, <2>6, <2>7 DEF PageInv, Scanned, TidPhase
  <2>9. VictimInv'
    <3>1. destruction_req' = <<>>
      BY ZenonT(60), <2>0, <2>2
    <3>2. Elems(destruction_req') = {}
      BY ZenonT(60), <3>1, ElemsEmpty
    <3>3. Len(destruction_req') <= 1
      BY ZenonT(60), <3>1, SeqEmpty, Counting
    <3> QED BY ZenonT(60), <3>2, <3>3, <2>7 DEF VictimInv
  <2>10. LockExclusion'
    <3>1. \A t \in Threads, l \in Locks : ~ Owns(t, l)
      BY ZenonT(60), <2>2, PoolFacts DEF Owns
    <3>2. \A t \in Threads, l \in Locks : holder'[l] # t
      BY ZenonT(60), <3>1, <2>0, <2>1 DEF LockExclusion
    <3> QED BY ZenonT(60), <3>1, <3>2, <2>0, <2>1, <2>7, <1>LockFrame DEF Inside
  <2>11. TidInv'
    <3>1. \A t \in Threads : tid[t] \in Nat /\ tid[t] < next_tid /\ next_tid \in Nat
      BY ZenonT(60), <2>1 DEF TypeOK, TidInv
    <3>2. \A t \in Threads : tid'[t] = IF t = p THEN next_tid ELSE tid[t]
      BY ZenonT(60), <2>0, <2>1 DEF TypeOK
    <3>3. \A t \in Threads : tid'[t] < next_tid'
      <4>1. next_tid' = next_tid + 1
        BY ZenonT(60), <2>0
      <4>2. SUFFICES ASSUME NEW t \in Threads PROVE tid'[t] < next_tid'
        BY ZenonT(60)
      <4>3. tid[t] < next_tid + 1 /\ next_tid < next_tid + 1
        BY <3>1
      <4> QED BY ZenonT(60), <3>2, <4>1, <4>3
    <3>4. ASSUME NEW t \in Threads, NEW u \in Threads, tid'[t] = tid'[u], tid'[t] # 0
          PROVE  t = u
      <4>1. \A v \in Threads : tid[v] # next_tid
        BY <3>1
      <4>2. \A v, w \in Threads : tid[v] = tid[w] /\ tid[v] # 0 => v = w
        BY ZenonT(60), <2>1 DEF TidInv
      <4> QED BY ZenonT(60), <4>1, <4>2, <3>2, <3>4
    <3> QED BY ZenonT(60), <3>3, <3>4, <2>7 DEF TidInv, TidRead
  <2>12. BootInv'
    <3>1. p \in Elems(ready_list')
      <4>1. p \in Elems(Append(ready_list, p))
        BY ZenonT(60), <2>1, <2>4, AppendElems DEF TypeOK
      <4> QED BY ZenonT(60), <4>1, <2>0
    <3> QED BY ZenonT(60), <3>1, <2>3, <2>6, <2>7, PoolFacts DEF BootInv
  <2> QED BY ZenonT(60), <2>5, <2>8, <2>9, <2>10, <2>11, <2>12 DEF IInv
(* A step that moves threads between quiet labels only disturbs no lock.   *)
<1>QuietStep.
    ASSUME IInv, Running,
           \A t \in Threads : pc'[t] = pc[t] \/ (pc[t] \in Quiet /\ pc'[t] \in Quiet),
           UNCHANGED <<lk, val, value, holder, tid, next_tid>>
    PROVE  LockExclusion' /\ TidInv'
  <2> USE <1>QuietStep
  <2>1. LockExclusion /\ TidInv
    BY ZenonT(60) DEF IInv
  <2>2. ASSUME NEW c \in Threads
        PROVE  /\ \A l \in Locks : Owns(c, l)' <=> Owns(c, l)
               /\ pc'[c] \in Inside <=> pc[c] \in Inside
               /\ TidRead(c)' => TidRead(c)
    BY ZenonT(60) DEF Quiet, Owns, Inside, TidRead
  <2>3. \A t \in Threads, l \in Locks : holder'[l] = t <=> Owns(t, l)' /\ pc'[t] \in Inside
    BY ZenonT(60), <2>1, <2>2 DEF LockExclusion, Inside
  <2>4. LockExclusion'
    BY ZenonT(60), <2>1, <2>2, <2>3, <1>LockFrame
  <2>5. TidInv'
    BY ZenonT(60), <2>1, <2>2, <1>TidFrame
  <2> QED BY ZenonT(60), <2>4, <2>5
(* do_schedule frees the pages of req and switches.                        *)
<1>DoScheduleFacts.
    ASSUME IInv, NEW new \in Statuses, NEW req \in Seq(Pool),
           NEW st \in [Threads -> Statuses], NEW ready \in Seq(Threads), NEW pcs,
           do_schedule(new, req, st, ready, pcs),
           ready # <<>> \/ idle_thread # NULL
    PROVE  /\ current' \in Threads
           /\ status' \in [Threads -> Statuses]
           /\ ready_list' \in Seq(Threads)
           /\ thread_ticks' \in 0..(TIME_SLICE - 1)
           /\ destruction_req' \in Seq(Pool)
           /\ waiters' \in [Semas -> Seq(Threads)]
           /\ Elems(ready) \subseteq {current'} \cup Elems(ready_list')
           /\ \/ destruction_req' = <<>>
              \/ /\ destruction_req' = <<current>>
                 /\ new = "DYING" /\ current \in Pool
  <2> USE <1>DoScheduleFacts
  <2> DEFINE w == waiters["pool"]
             k == Least({Len(req), Len(w)})
             woken == Popped(w, k)
             freed == Elems(req)
             sts == [t \in Threads |->
                       IF t = current THEN new
                       ELSE IF t \in freed THEN "NONE"
                       ELSE IF t \in Elems(woken) THEN "READY" ELSE st[t]]
  <2>1. /\ waiters' = [waiters EXCEPT !["pool"] = Rest(w, k)]
        /\ schedule(sts, ready \o woken, <<>>)
    BY ZenonT(60) DEF do_schedule
  <2>2. TypeOK
    BY DEF IInv
  <2>3. w \in Seq(Threads) /\ Len(req) \in Nat /\ Len(w) \in Nat
    BY ZenonT(60), <2>2, SeqLen DEF TypeOK, Semas, Locks
  <2>4. k \in 0..Len(w)
    BY ZenonT(60), <2>3, MinOfTwo
  <2> HIDE DEF k
  <2>5. woken \in Seq(Threads) /\ Rest(w, k) \in Seq(Threads)
    <3> HIDE DEF w
    <3> QED BY <2>3, <2>4, ElemsPopped
  <2>6. waiters' \in [Semas -> Seq(Threads)]
    <3>1. waiters \in [Semas -> Seq(Threads)]
      BY <2>2 DEF TypeOK
    <3> HIDE DEF w
    <3> QED BY ZenonT(60), <3>1, <2>1, <2>5
  <2>7. sts \in [Threads -> Statuses] /\ sts[current] = new
    BY ZenonT(60), <2>2 DEF TypeOK, Statuses
  <2> HIDE DEF woken, sts
  <2>8. /\ ready \o woken \in Seq(Threads)
        /\ Elems(ready) \subseteq Elems(ready \o woken)
        /\ ready # <<>> => ready \o woken # <<>>
    BY <2>5, ElemsConcat
  <2> DEFINE all == ready \o woken
             none == <<>>
  <2>9. all \in Seq(Threads) /\ none \in Seq(Pool) /\ schedule(sts, all, none)
        /\ (all # <<>> \/ idle_thread # NULL)
    BY ZenonT(60), <2>1, <2>8, SeqEmpty
  <2> HIDE DEF all, none
  <2>10. /\ current' \in Threads
         /\ status' \in [Threads -> Statuses]
         /\ ready_list' \in Seq(Threads)
         /\ thread_ticks' \in 0..(TIME_SLICE - 1)
         /\ destruction_req' \in Seq(Pool)
         /\ Elems(all) \subseteq {current'} \cup Elems(ready_list')
         /\ \/ destruction_req' = none
            \/ /\ destruction_req' = Append(none, current)
               /\ sts[current] = "DYING" /\ current \in Pool
    BY ZenonT(60), <2>2, <2>7, <2>9, ScheduleFacts
  <2>11. Append(none, current) = <<current>>
    BY DEF none
  <2> QED BY ZenonT(60), <2>6, <2>7, <2>8, <2>10, <2>11 DEF all, none
(* The invariant across do_schedule.  req are dead threads, in nobody      *)
(* else's hands; the current thread stays where it is, leaves its hlt, or  *)
(* dies.                                                                   *)
<1>DoScheduleStep.
    ASSUME IInv, Running, pc[current] # "boot",
           NEW new \in Statuses, NEW req \in Seq(Pool),
           NEW st \in [Threads -> Statuses], NEW ready \in Seq(Threads),
           NEW pcs \in [Threads -> Labels],
           do_schedule(new, req, st, ready, pcs),
           Elems(ready_list) \subseteq Elems(ready),
           (pc[current] = "idle_init" /\ idle_thread = NULL) => current \in Elems(ready),
           \A t \in Elems(req) : pc[t] = "dead",
           \A c \in Threads : pcs[c] = "reap" =>
              pc[c] = "reap" /\ page[c] \notin Elems(req),
           \A t \in Threads : t # current => pcs[t] = pc[t],
           \/ pcs[current] = pc[current]
           \/ pc[current] = "idle_hlt" /\ pcs[current] = "idle_block"
           \/ pc[current] \in {"run", "reap"} /\ pcs[current] = "dead",
           new = "DYING" => pc[current] \in {"run", "reap"} /\ pcs[current] = "dead",
           sleep_list' \in Seq(Threads), earliest' \in Int, ticks' \in 0..MaxTicks,
           UNCHANGED <<alarm, next_tid, tid, idle_thread>>
    PROVE  IInv'
  <2> USE <1>DoScheduleStep
  <2>1. TypeOK /\ LockExclusion /\ PageInv /\ VictimInv /\ BootInv
    BY ZenonT(60) DEF IInv
  <2>2. /\ used_map' = used_map \ Elems(req)
        /\ pc' = [t \in Threads |-> IF t \in Elems(req) THEN "none" ELSE pcs[t]]
        /\ UNCHANGED <<value, holder, lk, page, val, fault>>
    BY ZenonT(60) DEF do_schedule, locVars
  <2>3. PICK me \in Threads : me = current
    BY ZenonT(60), <2>1 DEF TypeOK
  <2>4. pc[Main] # "boot"
    BY ZenonT(60), <2>1 DEF BootInv
  <2>5. ready # <<>> \/ idle_thread # NULL
    <3>1. SUFFICES ASSUME idle_thread = NULL PROVE Elems(ready) # {}
      BY ZenonT(60), ElemsEmpty
    <3>2. PICK i \in Pool : pc[i] = "idle_init" /\ i \in {current} \cup Elems(ready_list)
      BY ZenonT(60), <3>1, <2>1, <2>4 DEF BootInv
    <3> QED BY ZenonT(60), <3>1, <3>2
  <2>6. /\ current' \in Threads
        /\ status' \in [Threads -> Statuses]
        /\ ready_list' \in Seq(Threads)
        /\ thread_ticks' \in 0..(TIME_SLICE - 1)
        /\ destruction_req' \in Seq(Pool)
        /\ waiters' \in [Semas -> Seq(Threads)]
        /\ Elems(ready) \subseteq {current'} \cup Elems(ready_list')
        /\ \/ destruction_req' = <<>>
           \/ /\ destruction_req' = <<current>>
              /\ new = "DYING" /\ current \in Pool
    BY ZenonT(60), <2>5, <1>DoScheduleFacts
  <2>7. TypeOK'
    <3>1. pc' \in [Threads -> Labels]
      BY ZenonT(60), <2>2 DEF Labels
    <3> QED BY ZenonT(60), <3>1, <2>1, <2>2, <2>6 DEF TypeOK
  <2>8. Elems(req) \subseteq Pool /\ Elems(req) \subseteq Threads
    BY ZenonT(60), ElemsSubset, PoolFacts
  <2>9. ASSUME NEW t \in Threads
        PROVE  /\ pc'[t] = pc[t] \/ (pc[t] \in Quiet /\ pc'[t] \in Quiet)
               /\ t \in Elems(req) => pc'[t] = "none"
               /\ pc'[t] = "none" => pc[t] = "none" \/ t \in Elems(req)
               /\ pc[t] = "none" => pc'[t] = "none"
               /\ (pc[t] = "dead" /\ t \notin Elems(req)) => pc'[t] = "dead"
               /\ pc'[t] = "reap" => pc[t] = "reap" /\ page[t] \notin Elems(req)
    <3>1. pc'[t] = IF t \in Elems(req) THEN "none" ELSE pcs[t]
      BY ZenonT(60), <2>2
    <3>2. CASE t = current
      BY ZenonT(60), <3>1, <3>2 DEF Quiet
    <3>3. CASE t # current
      BY ZenonT(60), <3>1, <3>3 DEF Quiet
    <3> QED BY ZenonT(60), <3>2, <3>3
  <2>10. LockExclusion' /\ TidInv'
    BY ZenonT(60), <2>2, <2>9, <1>QuietStep
  <2>11. PageInv'
    <3>1. pc'[Main] # "none"
      BY ZenonT(60), <2>1, <2>8, <2>9, PoolFacts DEF PageInv
    <3>2. \A t \in Pool : pc'[t] # "none" => t \in used_map'
      BY ZenonT(60), <2>1, <2>2, <2>9, PoolFacts DEF PageInv
    <3>3. ASSUME NEW c \in Threads
          PROVE  /\ HasPage(c)' => HasPage(c)
                 /\ Scanned(c)' => Scanned(c)
                 /\ TidPhase(c)' => TidPhase(c)
      BY ZenonT(60), <2>2, <2>9 DEF Quiet, HasPage, Scanned, TidPhase
    <3>4. ASSUME NEW c \in Threads, HasPage(c)'
          PROVE  page'[c] \in used_map' /\ pc'[page'[c]] = "none"
      <4>1. page[c] \in used_map /\ pc[page[c]] = "none" /\ page[c] \in Threads
        BY ZenonT(60), <3>3, <3>4, <2>1, PoolFacts DEF PageInv, TypeOK
      <4>2. page[c] \notin Elems(req)
        BY ZenonT(60), <4>1
      <4> QED BY ZenonT(60), <4>1, <4>2, <2>2, <2>9
    <3>5. ASSUME NEW c \in Threads
          PROVE  /\ Scanned(c)' => page'[c] \notin used_map'
                 /\ TidPhase(c)' => page'[c] # NULL
      BY ZenonT(60), <3>3, <2>1, <2>2 DEF PageInv, Scanned, TidPhase
    <3>6. ASSUME NEW c \in Threads, NEW d \in Threads,
                 HasPage(c)', HasPage(d)', page'[c] = page'[d]
          PROVE  c = d
      BY ZenonT(60), <3>6, <3>3, <2>1, <2>2 DEF PageInv
    <3> QED BY ZenonT(60), <3>1, <3>2, <3>4, <3>5, <3>6 DEF PageInv, Scanned, TidPhase
  <2>12. VictimInv'
    <3>1. ASSUME destruction_req' = <<me>>, new = "DYING"
          PROVE  /\ Elems(destruction_req') = {me} /\ Len(destruction_req') = 1
                 /\ pc[me] # "dead" /\ pc'[me] = "dead"
      <4>1. pc[me] \in {"run", "reap"} /\ pcs[me] = "dead" /\ me \notin Elems(req)
        BY ZenonT(60), <3>1, <2>3
      <4> QED BY ZenonT(60), <3>1, <4>1, <2>2, ElemsOne
    <3>2. Len(destruction_req') <= 1 /\ \A t \in Elems(destruction_req') : pc'[t] = "dead"
      <4>1. CASE destruction_req' = <<>>
        <5>1. Len(destruction_req') = 0 /\ Elems(destruction_req') = {}
          BY ZenonT(60), <4>1, ElemsEmpty
        <5>2. \A t \in Elems(destruction_req') : pc'[t] = "dead"
          BY ZenonT(60), <5>1
        <5> QED BY ZenonT(60), <5>1, <5>2, Counting
      <4>2. CASE destruction_req' = <<me>> /\ new = "DYING"
        <5>1. Elems(destruction_req') = {me} /\ pc'[me] = "dead"
          BY ZenonT(60), <4>2, <3>1
        <5>2. Len(destruction_req') = 1
          BY ZenonT(60), <4>2, <3>1
        <5> QED BY ZenonT(60), <5>1, <5>2, Counting
      <4> QED BY ZenonT(60), <4>1, <4>2, <2>3, <2>6
    <3>3. ASSUME NEW c \in Threads, pc'[c] = "reap"
          PROVE  /\ page'[c] \in Pool
                 /\ pc'[page'[c]] = "dead"
                 /\ page'[c] \notin Elems(destruction_req')
      <4>1. /\ page'[c] = page[c] /\ page[c] \in Pool /\ pc[page[c]] = "dead"
            /\ page[c] \notin Elems(req)
        BY ZenonT(60), <3>3, <2>1, <2>2, <2>9 DEF VictimInv
      <4>2. pc'[page[c]] = "dead"
        BY ZenonT(60), <4>1, <2>9, PoolFacts
      <4>3. page[c] \notin Elems(destruction_req')
        BY ZenonT(60), <4>1, <3>1, <2>3, <2>6, ElemsEmpty
      <4> QED BY ZenonT(60), <4>1, <4>2, <4>3
    <3>4. ASSUME NEW c \in Threads, NEW d \in Threads,
                 pc'[c] = "reap", pc'[d] = "reap", page'[c] = page'[d]
          PROVE  c = d
      <4>1. pc[c] = "reap" /\ pc[d] = "reap"
        BY ZenonT(60), <3>4, <2>2, <2>9
      <4>2. page[c] = page[d]
        BY ZenonT(60), <3>4, <2>2, <2>9
      <4> QED BY ZenonT(60), <4>1, <4>2, <2>1 DEF VictimInv
    <3> QED BY ZenonT(60), <3>2, <3>3, <3>4 DEF VictimInv
  <2>13. BootInv'
    <3>1. \A t \in Threads : pc'[t] = "boot" => pc[t] = "boot"
      BY ZenonT(60), <2>9 DEF Quiet
    <3>2. \A t \in Pool : pc[t] = "idle_init" => pc'[t] = "idle_init"
      BY ZenonT(60), <2>9, PoolFacts DEF Quiet
    <3> QED BY ZenonT(60), <3>1, <3>2, <2>1, <2>4, <2>6, <1>BootFrame
  <2> QED BY ZenonT(60), <2>7, <2>10, <2>11, <2>12, <2>13 DEF IInv
(* An exiting thread waits for the pool lock with the first page of req in  *)
(* its hands.                                                               *)
<1>DoScheduleWaitsStep.
    ASSUME IInv, Running, NEW req \in Seq(Pool),
           pc[current] \in {"run", "reap"},
           do_schedule_waits(req),
           \A t \in Elems(req) : pc[t] = "dead",
           \A c \in Threads :
              c # current /\ pc[c] = "reap" => page[c] \notin Elems(req),
           Len(Tail(req)) <= 1, Head(req) \notin Elems(Tail(req)),
           UNCHANGED <<sleep_list, alarm, earliest, ticks, next_tid, tid, idle_thread>>
    PROVE  IInv'
  <2> USE <1>DoScheduleWaitsStep
  <2>1. TypeOK /\ LockExclusion /\ PageInv /\ VictimInv /\ BootInv
    BY ZenonT(60) DEF IInv
  <2>2. /\ req # <<>>
        /\ waiters' = [waiters EXCEPT !["pool"] = Append(waiters["pool"], current)]
        /\ pc' = [pc EXCEPT ![current] = "reap"]
        /\ page' = [page EXCEPT ![current] = Head(req)]
        /\ UNCHANGED <<value, holder, used_map, lk, val, fault>>
    BY ZenonT(60) DEF do_schedule_waits
  <2>3. PICK me \in Threads : me = current
    BY ZenonT(60), <2>1 DEF TypeOK
  <2>4. pc[Main] # "boot"
    BY ZenonT(60), <2>1 DEF BootInv
  <2>5. /\ Head(req) \in Pool /\ Tail(req) \in Seq(Pool)
        /\ Elems(req) = {Head(req)} \cup Elems(Tail(req))
    BY ZenonT(60), <2>2, ElemsNonempty, SeqHeadTail
  <2>6. /\ current' \in Threads
        /\ status' \in [Threads -> Statuses]
        /\ ready_list' \in Seq(Threads)
        /\ thread_ticks' \in 0..(TIME_SLICE - 1)
        /\ Elems(ready_list) \subseteq {current'} \cup Elems(ready_list')
        /\ destruction_req' = Tail(req)
    <3> DEFINE st == [status EXCEPT ![current] = "BLOCKED"]
               rest == Tail(req)
    <3>1. st \in [Threads -> Statuses] /\ st[current] = "BLOCKED"
      BY ZenonT(60), <2>1 DEF TypeOK, Statuses
    <3>2. schedule(st, ready_list, rest)
      BY ZenonT(60) DEF do_schedule_waits
    <3>3. ready_list \in Seq(Threads) /\ rest \in Seq(Pool)
          /\ (ready_list # <<>> \/ idle_thread # NULL)
      BY ZenonT(60), <2>1, <2>4, <2>5, ElemsEmpty DEF TypeOK, BootInv
    <3> HIDE DEF st, rest
    <3>4. /\ current' \in Threads
          /\ status' \in [Threads -> Statuses]
          /\ ready_list' \in Seq(Threads)
          /\ thread_ticks' \in 0..(TIME_SLICE - 1)
          /\ Elems(ready_list) \subseteq {current'} \cup Elems(ready_list')
          /\ destruction_req' = rest
      BY ZenonT(60), <3>1, <3>2, <3>3, <2>1, ScheduleFacts
    <3> QED BY ZenonT(60), <3>4 DEF rest
  <2>7. TypeOK'
    <3>1. waiters' \in [Semas -> Seq(Threads)]
      <4>1. waiters \in [Semas -> Seq(Threads)] /\ "pool" \in Semas
        BY ZenonT(60), <2>1 DEF TypeOK, Semas, Locks
      <4>2. Append(waiters["pool"], current) \in Seq(Threads)
        BY ZenonT(60), <4>1, <2>3, ElemsAppend
      <4> QED BY ZenonT(60), <4>1, <4>2, <2>2
    <3>2. pc' \in [Threads -> Labels]
      BY ZenonT(60), <2>1, <2>2 DEF TypeOK, Labels
    <3>3. page' \in [Threads -> Pool \cup {NULL}]
      BY ZenonT(60), <2>1, <2>2, <2>5 DEF TypeOK
    <3> QED BY ZenonT(60), <3>1, <3>2, <3>3, <2>1, <2>2, <2>5, <2>6 DEF TypeOK
  <2>8. /\ pc'[me] = "reap" /\ page'[me] = Head(req)
        /\ \A t \in Threads : t # me => pc'[t] = pc[t] /\ page'[t] = page[t]
    BY ZenonT(60), <2>1, <2>2, <2>3 DEF TypeOK
  <2>9. \A t \in Threads : pc'[t] = pc[t] \/ (pc[t] \in Quiet /\ pc'[t] \in Quiet)
    BY ZenonT(60), <2>3, <2>8 DEF Quiet
  <2>10. LockExclusion' /\ TidInv'
    BY ZenonT(60), <2>2, <2>9, <1>QuietStep
  <2>11. PageInv'
    <3>1. ASSUME NEW c \in Threads
          PROVE  /\ HasPage(c)' => HasPage(c) /\ page'[c] = page[c]
                 /\ Scanned(c)' => Scanned(c) /\ page'[c] = page[c]
                 /\ TidPhase(c)' => TidPhase(c) /\ page'[c] = page[c]
      BY ZenonT(60), <2>2, <2>8 DEF HasPage, Scanned, TidPhase
    <3>2. pc'[Main] # "none"
      BY ZenonT(60), <2>1, <2>8, PoolFacts DEF PageInv
    <3>3. \A t \in Threads : pc'[t] = "none" <=> pc[t] = "none"
      BY ZenonT(60), <2>3, <2>8
    <3>4. used_map \subseteq Threads
      BY ZenonT(60), <2>1, PoolFacts DEF TypeOK
    <3> QED BY ZenonT(60), <3>1, <3>2, <3>3, <3>4, <2>1, <2>2, <1>PageFrame, PoolFacts
  <2>12. VictimInv'
    <3>1. \A t \in Threads : pc[t] = "dead" => pc'[t] = "dead"
      BY ZenonT(60), <2>3, <2>8
    <3>2. Elems(req) \subseteq Threads
      BY ZenonT(60), ElemsSubset, PoolFacts
    <3>3. Len(destruction_req') <= 1 /\ \A t \in Elems(destruction_req') : pc'[t] = "dead"
      BY ZenonT(60), <3>1, <3>2, <2>5, <2>6
    <3>4. ASSUME NEW c \in Threads, pc'[c] = "reap"
          PROVE  /\ page'[c] \in Pool
                 /\ pc'[page'[c]] = "dead"
                 /\ page'[c] \notin Elems(destruction_req')
      <4>1. CASE c = me
        BY ZenonT(60), <4>1, <3>1, <3>2, <2>5, <2>6, <2>8
      <4>2. CASE c # me
        <5>1. /\ page'[c] = page[c] /\ page[c] \in Pool /\ pc[page[c]] = "dead"
              /\ page[c] \notin Elems(req)
          BY ZenonT(60), <4>2, <3>4, <2>1, <2>3, <2>8 DEF VictimInv
        <5> QED BY ZenonT(60), <5>1, <3>1, <2>5, <2>6, PoolFacts
      <4> QED BY ZenonT(60), <4>1, <4>2
    <3>5. ASSUME NEW c \in Threads, c # me, pc'[c] = "reap"
          PROVE  page'[c] = page[c] /\ pc[c] = "reap" /\ page[c] # Head(req)
      BY ZenonT(60), <3>5, <2>3, <2>5, <2>8
    <3>6. ASSUME NEW c \in Threads, NEW d \in Threads,
                 pc'[c] = "reap", pc'[d] = "reap", page'[c] = page'[d]
          PROVE  c = d
      <4>1. CASE c # me /\ d # me
        <5>1. pc[c] = "reap" /\ pc[d] = "reap" /\ page[c] = page[d]
          BY ZenonT(60), <4>1, <3>5, <3>6
        <5> QED BY ZenonT(60), <5>1, <2>1 DEF VictimInv
      <4>2. CASE c = me \/ d = me
        BY ZenonT(60), <4>2, <3>5, <3>6, <2>8
      <4> QED BY ZenonT(60), <4>1, <4>2
    <3> QED BY ZenonT(60), <3>3, <3>4, <3>6 DEF VictimInv
  <2>13. BootInv'
    <3>1. /\ \A t \in Threads : pc'[t] = "boot" => pc[t] = "boot"
          /\ \A t \in Pool : pc[t] = "idle_init" => pc'[t] = "idle_init"
      BY ZenonT(60), <2>3, <2>8, PoolFacts
    <3> QED BY ZenonT(60), <3>1, <2>1, <2>4, <2>6, <1>BootFrame
  <2> QED BY ZenonT(60), <2>7, <2>10, <2>11, <2>12, <2>13 DEF IInv
(* Where a yielding thread meets a held pool lock the kernel stops in the    *)
(* model, and only the types are claimed.                                    *)
<1>YieldStopsStep.
    ASSUME IInv, NEW st \in [Threads -> Statuses], NEW ready \in Seq(Threads),
           NEW pcs \in [Threads -> Labels],
           yield_asserts(st, ready, pcs) \/ yield_relinks(st, ready, pcs),
           sleep_list' \in Seq(Threads), earliest' \in Int, ticks' \in 0..MaxTicks,
           UNCHANGED <<alarm, next_tid, tid, idle_thread>>
    PROVE  IInv'
  <2> USE <1>YieldStopsStep
  <2>1. TypeOK
    BY DEF IInv
  <2>2. /\ destruction_req # <<>> /\ destruction_req' = Tail(destruction_req)
        /\ ready_list' = ready /\ pc' = pcs
        /\ UNCHANGED <<current, thread_ticks, used_map, value, holder, lk, page, val>>
        /\ fault' \in {"lock_assert", "double_link"}
        /\ status' = st \/ status' = [st EXCEPT ![current] = "BLOCKED"]
        /\ \/ waiters' = waiters
           \/ waiters' = [waiters EXCEPT !["pool"] = Append(waiters["pool"], current)]
    BY ZenonT(60) DEF yield_asserts, yield_relinks, yield_meets_lock, locVars
  <2>3. destruction_req' \in Seq(Pool)
    BY ZenonT(60), <2>1, <2>2, SeqHeadTail DEF TypeOK
  <2>4. status' \in [Threads -> Statuses]
    BY <2>2 DEF Statuses
  <2>5. waiters' \in [Semas -> Seq(Threads)]
    <3>1. waiters \in [Semas -> Seq(Threads)] /\ "pool" \in Semas /\ current \in Threads
      BY ZenonT(60), <2>1 DEF TypeOK, Semas, Locks
    <3>2. Append(waiters["pool"], current) \in Seq(Threads)
      BY <3>1, ElemsAppend
    <3> QED BY ZenonT(60), <3>1, <3>2, <2>2
  <2>6. TypeOK'
    BY ZenonT(60), <2>1, <2>2, <2>3, <2>4, <2>5 DEF TypeOK
  <2>7. ~ Running'
    BY <2>2 DEF Running
  <2> QED BY <2>6, <2>7 DEF IInv
(* thread_yield, called by a thread or on the way out of an interrupt.     *)
<1>ThreadYieldStep.
    ASSUME IInv, Running, pc[current] \notin {"boot", "reap"},
           NEW st \in [Threads -> Statuses], NEW ready \in Seq(Threads),
           NEW pcs \in [Threads -> Labels],
           \/ thread_yield(st, ready, pcs)
           \/ yield_asserts(st, Requeued(ready), pcs),
           Elems(ready_list) \subseteq Elems(ready),
           \A t \in Threads : t # current => pcs[t] = pc[t],
           \/ pcs[current] = pc[current]
           \/ pc[current] = "idle_hlt" /\ pcs[current] = "idle_block",
           sleep_list' \in Seq(Threads), earliest' \in Int, ticks' \in 0..MaxTicks,
           UNCHANGED <<alarm, next_tid, tid, idle_thread>>
    PROVE  IInv'
  <2> USE <1>ThreadYieldStep
  <2> DEFINE queue == Requeued(ready)
  <2>1. TypeOK /\ VictimInv /\ BootInv
    BY ZenonT(60) DEF IInv
  <2>2. queue \in Seq(Threads) /\ Elems(ready) \subseteq Elems(queue)
        /\ (current # idle_thread => current \in Elems(queue))
    <3>1. current \in Threads
      BY ZenonT(60), <2>1 DEF TypeOK
    <3>2. CASE current = idle_thread
      BY ZenonT(60), <3>2 DEF Requeued
    <3>3. CASE current # idle_thread
      <4>1. queue = Append(ready, current)
        BY ZenonT(60), <3>3 DEF Requeued
      <4> HIDE DEF queue
      <4> QED BY <3>1, <4>1, ElemsAppend
    <3> QED BY ZenonT(60), <3>2, <3>3
  <2>3. CASE do_schedule("READY", destruction_req, st, queue, pcs)
    <3>1. "READY" \in Statuses /\ destruction_req \in Seq(Pool)
          /\ \A t \in Elems(destruction_req) : pc[t] = "dead"
      BY ZenonT(60), <2>1 DEF Statuses, TypeOK, VictimInv
    <3>3. idle_thread = NULL => current \in Elems(queue)
      BY ZenonT(60), <2>1, <2>2, PoolFacts DEF TypeOK
    <3>4. \A c \in Threads : pcs[c] = "reap" =>
             pc[c] = "reap" /\ page[c] \notin Elems(destruction_req)
      BY ZenonT(60), <2>1 DEF VictimInv
    <3>5. Elems(ready_list) \subseteq Elems(queue)
      BY ZenonT(60), <2>2
    <3> HIDE DEF queue
    <3> QED BY ZenonT(60), <3>1, <3>3, <3>4, <3>5, <2>2, <2>3, <1>DoScheduleStep
  <2>4. CASE yield_relinks(st, queue, pcs) \/ yield_asserts(st, queue, pcs)
    <3> HIDE DEF queue
    <3> QED BY ZenonT(60), <2>2, <2>4, <1>YieldStopsStep
  <2> QED BY <2>3, <2>4 DEF thread_yield
(* thread_yield called by a thread in its function.                         *)
<1>YieldStep.
    ASSUME IInv, Yield
    PROVE  IInv'
  <2> USE <1>YieldStep
  <2>1. Running /\ pc[current] = "run" /\ TypeOK
        /\ thread_yield(status, ready_list, pc)
        /\ UNCHANGED <<sleep_list, alarm, earliest, ticks, next_tid, tid, idle_thread>>
    BY DEF Yield, At, Running, IInv, alarmVars, tidVars
  <2>2. /\ status \in [Threads -> Statuses] /\ ready_list \in Seq(Threads)
        /\ pc \in [Threads -> Labels]
        /\ sleep_list' \in Seq(Threads) /\ earliest' \in Int /\ ticks' \in 0..MaxTicks
    BY ZenonT(60), <2>1 DEF TypeOK
  <2> QED BY ZenonT(60), <2>1, <2>2, <1>ThreadYieldStep
(* thread_exit: the page of the thread that died before is freed, or taken  *)
(* in hand while the thread waits for the pool lock.                        *)
<1>ThreadExitStep.
    ASSUME IInv, thread_exit
    PROVE  IInv'
  (* Popping the only element of a list.                                     *)
  <2>TailOfOne.
      ASSUME NEW S, NEW s \in Seq(S), s # <<>>, Len(s) <= 1
      PROVE  Tail(s) = <<>> /\ Len(Tail(s)) <= 1
    <3> USE <2>TailOfOne
    <3>1. PICK n \in Nat : n = Len(s)
      BY SeqLen
    <3>2. n # 0
      BY <3>1, SeqEmpty
    <3>3. Tail(s) \in Seq(S) /\ Len(Tail(s)) = n - 1
      BY <3>1, SeqHeadTail
    <3>4. n = 1
      BY <3>1, <3>2
    <3>5. Len(Tail(s)) = 0
      BY <3>3, <3>4
    <3> QED BY <3>3, <3>5, SeqEmpty
  <2> USE <1>ThreadExitStep
  <2> DEFINE pcs == [pc EXCEPT ![current] = "dead"]
  <2>1. /\ Running /\ pc[current] = "run"
        /\ \/ do_schedule("DYING", destruction_req, status, ready_list, pcs)
           \/ do_schedule_waits(destruction_req)
        /\ UNCHANGED <<sleep_list, alarm, earliest, ticks, next_tid, tid, idle_thread>>
    BY DEF thread_exit, At, Running, alarmVars, tidVars
  <2>2. TypeOK /\ VictimInv
    BY ZenonT(60), <2>1 DEF IInv
  <2>3. /\ status \in [Threads -> Statuses] /\ ready_list \in Seq(Threads)
        /\ pcs \in [Threads -> Labels] /\ "DYING" \in Statuses
        /\ destruction_req \in Seq(Pool)
        /\ sleep_list' \in Seq(Threads) /\ earliest' \in Int /\ ticks' \in 0..MaxTicks
    BY ZenonT(60), <2>1, <2>2 DEF TypeOK, Statuses, Labels
  <2>4. /\ pcs[current] = "dead"
        /\ \A t \in Threads : t # current => pcs[t] = pc[t]
    BY ZenonT(60), <2>2 DEF TypeOK
  <2> HIDE DEF pcs
  <2>5. \A t \in Elems(destruction_req) : pc[t] = "dead"
    BY ZenonT(60), <2>2 DEF VictimInv
  <2>6. \A c \in Threads : pc[c] = "reap" => page[c] \notin Elems(destruction_req)
    BY ZenonT(60), <2>2 DEF VictimInv
  <2>7. CASE do_schedule("DYING", destruction_req, status, ready_list, pcs)
    <3>1. \A c \in Threads : pcs[c] = "reap" =>
             pc[c] = "reap" /\ page[c] \notin Elems(destruction_req)
      BY ZenonT(60), <2>4, <2>6
    <3> QED BY ZenonT(60), <3>1, <2>1, <2>3, <2>4, <2>5, <2>7, <1>DoScheduleStep
  <2>8. CASE do_schedule_waits(destruction_req)
    <3>1. destruction_req # <<>>
      BY ZenonT(60), <2>8 DEF do_schedule_waits
    <3>4. Tail(destruction_req) = <<>> /\ Len(Tail(destruction_req)) <= 1
      BY ZenonT(60), <3>1, <2>2, <2>3, <2>TailOfOne DEF VictimInv
    <3>5. Head(destruction_req) \notin Elems(Tail(destruction_req))
      BY ZenonT(60), <3>4, ElemsEmpty
    <3>7. pc[current] \in {"run", "reap"}
      BY <2>1
    <3> QED BY ZenonT(60), <3>4, <3>5, <3>7, <2>1, <2>3, <2>5, <2>6, <2>8, <1>DoScheduleWaitsStep
  <2> QED BY <2>1, <2>7, <2>8
(* An exiting thread that has waited for the pool lock frees the page it    *)
(* holds, and the one that was queued meanwhile.                            *)
<1>ReapStep.
    ASSUME IInv, Reap
    PROVE  IInv'
  <2> USE <1>ReapStep
  <2> DEFINE pcs == [pc EXCEPT ![current] = "dead"]
             req == <<page[current]>> \o destruction_req
  <2>1. /\ Running /\ pc[current] = "reap"
        /\ \/ do_schedule("DYING", req, status, ready_list, pcs)
           \/ do_schedule_waits(req)
        /\ UNCHANGED <<sleep_list, alarm, earliest, ticks, next_tid, tid, idle_thread>>
    BY DEF Reap, At, Running, alarmVars, tidVars
  <2>2. TypeOK /\ VictimInv
    BY <2>1 DEF IInv
  <2>3. /\ status \in [Threads -> Statuses] /\ ready_list \in Seq(Threads)
        /\ pcs \in [Threads -> Labels] /\ "DYING" \in Statuses
        /\ destruction_req \in Seq(Pool) /\ current \in Threads
        /\ sleep_list' \in Seq(Threads) /\ earliest' \in Int /\ ticks' \in 0..MaxTicks
    BY ZenonT(60), <2>1, <2>2 DEF TypeOK, Statuses, Labels
  <2>4. /\ pcs[current] = "dead"
        /\ \A t \in Threads : t # current => pcs[t] = pc[t]
    BY ZenonT(60), <2>2 DEF TypeOK
  <2>5. /\ page[current] \in Pool /\ pc[page[current]] = "dead"
        /\ page[current] \notin Elems(destruction_req)
    BY ZenonT(60), <2>1, <2>2, <2>3 DEF VictimInv
  <2>7. /\ req \in Seq(Pool)
        /\ Elems(req) = {page[current]} \cup Elems(destruction_req)
        /\ Head(req) = page[current] /\ Tail(req) = destruction_req
    BY ZenonT(60), <2>3, <2>5, ConsFacts
  <2> HIDE DEF pcs
  <2> HIDE DEF req
  <2>9. \A t \in Elems(req) : pc[t] = "dead"
    BY ZenonT(60), <2>2, <2>5, <2>7 DEF VictimInv
  <2>10. \A c \in Threads : c # current /\ pc[c] = "reap" => page[c] \notin Elems(req)
    BY ZenonT(60), <2>1, <2>2, <2>3, <2>7 DEF VictimInv
  <2>11. CASE do_schedule("DYING", req, status, ready_list, pcs)
    <3>1. \A c \in Threads : pcs[c] = "reap" => pc[c] = "reap" /\ page[c] \notin Elems(req)
      BY ZenonT(60), <2>4, <2>10
    <3> QED BY ZenonT(60), <3>1, <2>1, <2>3, <2>4, <2>7, <2>9, <2>11, <1>DoScheduleStep
  <2>12. CASE do_schedule_waits(req)
    <3>1. Len(Tail(req)) <= 1 /\ Head(req) \notin Elems(Tail(req))
      BY ZenonT(60), <2>2, <2>5, <2>7 DEF VictimInv
    <3> QED BY ZenonT(60), <3>1, <2>1, <2>7, <2>9, <2>10, <2>12, <1>DoScheduleWaitsStep
  <2> QED BY <2>1, <2>11, <2>12
(* The timer interrupt, with and without a yield on return.                 *)
<1>TimerStep.
    ASSUME HaveMinima, IInv, TimerInterrupt
    PROVE  IInv'
  <2> USE <1>TimerStep
  <2> DEFINE n == WakeCount(ticks + 1)
             woken == Popped(sleep_list, n)
             st == [t \in Threads |-> IF t \in Elems(woken) THEN "READY" ELSE status[t]]
             ready == ready_list \o woken
             pcs == IF pc[current] = "idle_hlt"
                    THEN [pc EXCEPT ![current] = "idle_block"] ELSE pc
  <2>1. /\ Running /\ pc[current] \notin {"boot", "wake", "reap"} /\ ticks < MaxTicks
        /\ ticks' = ticks + 1 /\ sleep_list' = Rest(sleep_list, n)
        /\ earliest' = NextEarliest(n)
        /\ UNCHANGED <<alarm, next_tid, tid, idle_thread>>
    BY ZenonT(60) DEF TimerInterrupt, timer_interrupt, InterruptsOn, Running, tidVars
  <2>2. \/ thread_yield(st, ready, pcs) \/ yield_asserts(st, Requeued(ready), pcs)
        \/ /\ ~ SliceOver /\ thread_ticks' = thread_ticks + 1
           /\ status' = st /\ ready_list' = ready /\ pc' = pcs
           /\ UNCHANGED <<current, destruction_req, used_map, value, waiters, holder,
                          lk, page, val, fault>>
    BY ZenonT(60) DEF TimerInterrupt, lockVars, locVars
  <2>3. TypeOK /\ VictimInv /\ BootInv /\ PageInv
    BY <2>1 DEF IInv
  <2>4. n \in 0..Len(sleep_list) /\ NextEarliest(n) \in Int
    <3>1. ticks + 1 \in Int
      BY <2>3 DEF TypeOK
    <3> QED BY ZenonT(60), <3>1, <2>3, WakeFacts
  <2> HIDE DEF n
  <2>5. woken \in Seq(Threads) /\ Rest(sleep_list, n) \in Seq(Threads)
    <3>1. sleep_list \in Seq(Threads)
      BY <2>3 DEF TypeOK
    <3> QED BY ZenonT(60), <3>1, <2>4, ElemsPopped
  <2>6. sleep_list' \in Seq(Threads) /\ earliest' \in Int
    BY ZenonT(60), <2>1, <2>4, <2>5
  <2>7. ticks' \in 0..MaxTicks
    <3>1. ticks \in 0..MaxTicks /\ ticks' = ticks + 1 /\ ticks < MaxTicks
      BY ZenonT(60), <2>1, <2>3 DEF TypeOK
    <3> QED BY <3>1, ThreadAssumption
  <2>8. st \in [Threads -> Statuses]
    BY ZenonT(60), <2>3 DEF TypeOK, Statuses
  <2> HIDE DEF woken
  <2>9. ready \in Seq(Threads) /\ Elems(ready_list) \subseteq Elems(ready)
    <3>1. ready_list \in Seq(Threads)
      BY ZenonT(60), <2>3 DEF TypeOK
    <3> QED BY <3>1, <2>5, ElemsConcat
  <2>10. /\ pcs \in [Threads -> Labels]
         /\ \A t \in Threads : t # current => pcs[t] = pc[t]
         /\ \/ pcs[current] = pc[current]
            \/ pc[current] = "idle_hlt" /\ pcs[current] = "idle_block"
    BY ZenonT(60), <2>3 DEF TypeOK, Labels
  <2> HIDE DEF st, ready, pcs
  <2>11. CASE thread_yield(st, ready, pcs) \/ yield_asserts(st, Requeued(ready), pcs)
    BY ZenonT(60), <2>1, <2>6, <2>7, <2>8, <2>9, <2>10, <2>11, <1>ThreadYieldStep
  <2>12. CASE /\ ~ SliceOver /\ thread_ticks' = thread_ticks + 1
              /\ status' = st /\ ready_list' = ready /\ pc' = pcs
              /\ UNCHANGED <<current, destruction_req, used_map, value, waiters, holder,
                             lk, page, val, fault>>
    <3>1. thread_ticks' \in 0..(TIME_SLICE - 1)
      <4>1. thread_ticks \in 0..(TIME_SLICE - 1) /\ ~ (thread_ticks + 1 >= TIME_SLICE)
        BY ZenonT(60), <2>3, <2>12 DEF TypeOK, SliceOver
      <4>2. thread_ticks' = thread_ticks + 1
        BY ZenonT(60), <2>12
      <4> QED BY <4>1, <4>2, ThreadAssumption
    <3>2. TypeOK'
      BY ZenonT(60), <3>1, <2>1, <2>3, <2>6, <2>7, <2>8, <2>9, <2>10, <2>12 DEF TypeOK
    <3>3. \A t \in Threads : pc'[t] = pc[t] \/ (pc[t] = "idle_hlt" /\ pc'[t] = "idle_block")
      BY ZenonT(60), <2>3, <2>10, <2>12
    <3>4. LockExclusion' /\ TidInv'
      BY ZenonT(60), <3>3, <2>1, <2>12, <1>QuietStep DEF Quiet
    <3>5. PageInv'
      <4>1. \A c \in Threads : /\ HasPage(c)' => HasPage(c) /\ page'[c] = page[c]
                               /\ Scanned(c)' => Scanned(c) /\ page'[c] = page[c]
                               /\ TidPhase(c)' => TidPhase(c) /\ page'[c] = page[c]
        BY ZenonT(60), <3>3, <2>12 DEF HasPage, Scanned, TidPhase
      <4>2. pc'[Main] # "none" /\ used_map \subseteq Threads
        BY ZenonT(60), <3>3, <2>3, PoolFacts DEF PageInv, TypeOK
      <4>3. \A t \in Threads : pc'[t] = "none" <=> pc[t] = "none"
        BY <3>3
      <4> QED BY ZenonT(60), <4>1, <4>2, <4>3, <2>3, <2>12, <1>PageFrame, PoolFacts
    <3>6. VictimInv'
      BY ZenonT(60), <3>3, <2>3, <2>12, <1>VictimFrame
    <3>7. BootInv'
      <4>1. pc[Main] # "boot"
        BY ZenonT(60), <2>1, <2>3 DEF BootInv
      <4>2. /\ \A t \in Threads : pc'[t] = "boot" => pc[t] = "boot"
            /\ \A t \in Pool : pc[t] = "idle_init" => pc'[t] = "idle_init"
        BY <3>3, PoolFacts
      <4> QED BY ZenonT(60), <4>1, <4>2, <2>1, <2>3, <2>9, <2>12, <1>BootFrame
    <3> QED BY ZenonT(60), <3>2, <3>4, <3>5, <3>6, <3>7 DEF IInv
  <2> QED BY ZenonT(60), <2>2, <2>11, <2>12
<1> SUFFICES ASSUME HaveMinima, IInv, [Next]_vars
             PROVE  IInv'
  OBVIOUS
<1>1. CASE TimerInterrupt
  BY <1>1, <1>TimerStep
<1>2. CASE Call
  <2>1. CASE \E d \in Durations : timer_sleep(d)
    BY <2>1, <1>TimerSleepStep
  <2> QED BY ZenonT(60), <2>1, <1>2, <1>YieldStep, <1>ThreadExitStep, <1>CreateStep DEF Call
<1>3. CASE Step
  <2>1. CASE sema_down
    BY <2>1, <1>DownWaitStep, <1>DownTakeStep
  <2>2. CASE CriticalRead
    <3>1. lk[current] = "pool" \/ lk[current] = "tid"
      BY ZenonT(60), <2>2 DEF CriticalRead
    <3> QED BY ZenonT(60), <2>2, <3>1, <1>ReadPoolStep, <1>ReadTidStep
  <2>3. CASE CriticalWrite
    <3>1. lk[current] = "pool" \/ lk[current] = "tid"
      BY ZenonT(60), <2>3 DEF CriticalWrite
    <3> QED BY <2>3, <3>1, <1>WritePoolStep, <1>WriteTidStep
  <2> QED BY ZenonT(60), <2>1, <2>2, <2>3, <1>3, <1>ThreadStartStep, <1>ReapStep, <1>ThreadSleepStep,
             <1>AcquireStep, <1>ReleaseStep, <1>SemaUpStep, <1>ThreadUnblockStep, <1>IdleInitStep,
             <1>IdleStep DEF Step
<1>4. CASE UNCHANGED vars
  <2>1. UNCHANGED <<current, status, ready_list, thread_ticks, destruction_req,
                    sleep_list, alarm, earliest, ticks, used_map, value, waiters,
                    holder, next_tid, tid, idle_thread, pc, lk, page, val, fault>>
    BY ZenonT(60), <1>4 DEF vars, schedVars, alarmVars, lockVars, tidVars, locVars
  <2>2. TypeOK' <=> TypeOK
    BY ZenonT(60), <2>1 DEF TypeOK
  <2>3. Running' <=> Running
    BY ZenonT(60), <2>1 DEF Running
  <2>4. LockExclusion' <=> LockExclusion
    <3>1. \A t, l : Owns(t, l)' <=> Owns(t, l)
      BY ZenonT(60), <2>1 DEF Owns
    <3> QED BY ZenonT(60), <2>1, <2>3, <3>1 DEF LockExclusion
  <2>5. BootInv' <=> BootInv
    BY ZenonT(60), <2>1 DEF BootInv
  <2>6. PageInv' <=> PageInv
    <3>1. \A c \in Threads : HasPage(c)' <=> HasPage(c)
      BY ZenonT(60), <2>1 DEF HasPage
    <3> QED BY ZenonT(60), <2>1, <3>1 DEF PageInv
  <2>7. VictimInv' <=> VictimInv
    BY ZenonT(60), <2>1 DEF VictimInv
  <2>8. TidInv' <=> TidInv
    BY ZenonT(60), <2>1 DEF TidInv
  <2> QED BY ZenonT(60), <2>2, <2>3, <2>4, <2>5, <2>6, <2>7, <2>8 DEF IInv
<1> QED BY ZenonT(60), <1>1, <1>2, <1>3, <1>4 DEF Next
=============================================================================
