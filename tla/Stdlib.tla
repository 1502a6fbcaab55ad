------------------------------- MODULE Stdlib -------------------------------
(***************************************************************************)
(* lib/stdlib.c: the heap sort behind qsort, the binary search behind      *)
(* bsearch, and atoi with an int of a given range, whose overflow is       *)
(* undefined.  Array elements carry a key, which COMPARE looks at, and an  *)
(* identity, which it does not see.                                        *)
(***************************************************************************)
EXTENDS Integers, Sequences, FiniteSets

CONSTANTS
    Keys,       \* what the elements of arrays are compared by
    MaxCnt,     \* longest array
    Digits,     \* the digits in strings, 0 .. 9
    MaxStr,     \* longest string
    IntMax      \* INT_MAX; INT_MIN is -IntMax - 1

(* Characters that are not digits.                                           *)
Space == 10
Plus == 11
Minus == 12
Other == 13
End == 14       \* the null terminator
Chars == Digits \cup {Space, Plus, Minus, Other}
Null == 0
Undefined == -2 * IntMax

VARIABLES
    input,    \* the array or string
    call,     \* the call, and what it returned
    array     \* the array after the call

vars == <<input, call, array>>

Upto(S, n) == UNION {[1 .. k -> S] : k \in 0 .. n}
Init ==
    /\ \/ /\ call = <<"array">>
          /\ \E keys \in Upto(Keys, MaxCnt) : input = [i \in DOMAIN keys |-> <<keys[i], i>>]
       \/ call = <<"string">> /\ input \in Upto(Chars, MaxStr)
    /\ array = input

-----------------------------------------------------------------------------
(* Elements have 1-based indexes, as in the code.                            *)
compare(a, b) == a[1] - b[1]
do_compare(s, a, b) == compare(s[a], s[b])
do_swap(s, a, b) == [s EXCEPT ![a] = s[b], ![b] = s[a]]

(* Mutant: a right child in the last place of the heap is not looked at.     *)
Largest_last(s, i, cnt) ==
    LET max == IF 2 * i <= cnt /\ do_compare(s, 2 * i, i) > 0 THEN 2 * i ELSE i
    IN  IF 2 * i + 1 < cnt /\ do_compare(s, 2 * i + 1, max) > 0 THEN 2 * i + 1 ELSE max
Largest(s, i, cnt) ==
    LET max == IF 2 * i <= cnt /\ do_compare(s, 2 * i, i) > 0 THEN 2 * i ELSE i
    IN  IF 2 * i + 1 <= cnt /\ do_compare(s, 2 * i + 1, max) > 0 THEN 2 * i + 1 ELSE max
RECURSIVE heapify(_, _, _)
heapify(s, i, cnt) ==
    LET max == Largest(s, i, cnt) IN IF max = i THEN s ELSE heapify(do_swap(s, i, max), max, cnt)

RECURSIVE Build(_, _, _)
Build(s, i, cnt) == IF i > 0 THEN Build(heapify(s, i, cnt), i - 1, cnt) ELSE s
RECURSIVE Extract(_, _)
Extract(s, i) == IF i > 1 THEN Extract(heapify(do_swap(s, 1, i), 1, i - 1), i - 1) ELSE s
sort(s) == Extract(Build(s, Len(s) \div 2, Len(s)), Len(s))

(* Mutant: the lower half leaves out its last element.                       *)
Narrow_first(first, middle, last, cmp) == IF cmp < 0 THEN <<first, middle - 1>> ELSE <<middle + 1, last>>
(* The next range [first, last).                                             *)
Narrow(first, middle, last, cmp) == IF cmp < 0 THEN <<first, middle>> ELSE <<middle + 1, last>>
RECURSIVE Search(_, _, _)
Search(key, s, r) ==
    IF r[1] >= r[2] THEN Null
    ELSE LET middle == r[1] + (r[2] - r[1]) \div 2
             cmp == key - s[middle][1]
         IN  IF cmp = 0 THEN middle ELSE Search(key, s, Narrow(r[1], middle, r[2], cmp))
binary_search(key, s) == Search(key, s, <<1, Len(s) + 1>>)

-----------------------------------------------------------------------------
Fits(x) == IF x \in -IntMax - 1 .. IntMax THEN x ELSE Undefined
At(s, i) == IF i <= Len(s) THEN s[i] ELSE End

(* Mutant: parsed as a positive value and negated at the end.                *)
Digit_positive(value, c) ==
    IF value = Undefined \/ Fits(-value * 10) = Undefined \/ Fits(-value * 10 + c) = Undefined THEN Undefined
    ELSE -(-value * 10 + c)
(* One more digit of a value that is kept negative.                          *)
Digit(value, c) ==
    IF value = Undefined \/ Fits(value * 10) = Undefined THEN Undefined ELSE Fits(value * 10 - c)
RECURSIVE DigitsFrom(_, _, _)
DigitsFrom(s, i, value) ==
    IF At(s, i) \in Digits THEN DigitsFrom(s, i + 1, Digit(value, s[i])) ELSE value
RECURSIVE Blank(_, _)
Blank(s, i) == IF At(s, i) = Space THEN Blank(s, i + 1) ELSE i
atoi(s) ==
    LET i == Blank(s, 1)
        negative == At(s, i) = Minus
        value == DigitsFrom(s, IF At(s, i) \in {Plus, Minus} THEN i + 1 ELSE i, 0)
    IN  IF value = Undefined \/ negative THEN value ELSE Fits(-value)

-----------------------------------------------------------------------------
qsort ==
    /\ call = <<"array">>
    /\ array' = sort(array) /\ call' = <<"qsort", Null>> /\ UNCHANGED input

(* bsearch for a key, in the array qsort has sorted.                         *)
bsearch(key) ==
    /\ call[1] = "qsort"
    /\ call' = <<"bsearch", binary_search(key, array), key>> /\ UNCHANGED <<input, array>>

Atoi == call = <<"string">> /\ call' = <<"atoi", atoi(input)>> /\ UNCHANGED <<input, array>>

Next == qsort \/ Atoi \/ \E key \in Keys : bsearch(key)

Spec == Init /\ [][Next]_vars

-----------------------------------------------------------------------------
(* sort leaves the same elements, each once, in nondecreasing order: for     *)
(* every length and every pattern of equal keys.                             *)
SortedPermutation ==
    call[1] = "qsort" =>
        /\ \A e \in {input[i] : i \in DOMAIN input} : \E i \in DOMAIN array : array[i] = e
        /\ Len(array) = Len(input)
        /\ \A i \in 1 .. Len(array) - 1 : compare(array[i], array[i + 1]) <= 0

(* binary_search returns a match whenever there is one, at either end too,   *)
(* and NULL otherwise.                                                       *)
SearchIsExact ==
    call[1] = "bsearch" =>
        IF call[2] = Null THEN \A i \in DOMAIN array : array[i][1] # call[3]
        ELSE array[call[2]][1] = call[3]

(* The value the longest numeric prefix of the string stands for.            *)
Power(n) == 10 ^ n
SumOf(ds) == LET RECURSIVE Add(_)
                 Add(i) == IF i = 0 THEN 0 ELSE Add(i - 1) + ds[i] * Power(Len(ds) - i)
             IN  Add(Len(ds))
Spaces(s) == CHOOSE n \in 0 .. Len(s) : (\A i \in 1 .. n : s[i] = Space) /\ At(s, n + 1) # Space
Body(s) == SubSeq(s, Spaces(s) + 1, Len(s))
Unsigned(b) == IF b # <<>> /\ b[1] \in {Plus, Minus} THEN Tail(b) ELSE b
Numeral(b) == SubSeq(b, 1, CHOOSE n \in 0 .. Len(b) :
                               (\A i \in 1 .. n : b[i] \in Digits) /\ At(b, n + 1) \notin Digits)
Value(s) == (IF Body(s) # <<>> /\ Body(s)[1] = Minus THEN -1 ELSE 1) * SumOf(Numeral(Unsigned(Body(s))))

(* atoi returns the number for every number an int can hold, INT_MIN with    *)
(* its larger magnitude included: no intermediate value overflows.           *)
AtoiInRange == call[1] = "atoi" => call[2] = Fits(Value(input))
=============================================================================
