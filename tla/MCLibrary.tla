------------------------------ MODULE MCLibrary ------------------------------
(***************************************************************************)
(* The kernel's library on small instances.  Its units share no state, so  *)
(* a behaviour exercises one of them: unit says which, and x1, x2, ... are *)
(* that unit's variables, renamed by the INSTANCE.  The properties below   *)
(* are those of the modules, joined per unit.                              *)
(***************************************************************************)
EXTENDS Integers, Sequences

CONSTANTS Nil, BITMAP_ERROR, Off

VARIABLES unit, x1, x2, x3, x4, x5, x6, x7, x8

vars == <<unit, x1, x2, x3, x4, x5, x6, x7, x8>>
From3 == <<x3, x4, x5, x6, x7, x8>>
From4 == <<x4, x5, x6, x7, x8>>
From5 == <<x5, x6, x7, x8>>
From6 == <<x6, x7, x8>>
From7 == <<x7, x8>>
Off7 == x7 = Off /\ x8 = Off
Off6 == x6 = Off /\ Off7
Off5 == x5 = Off /\ Off6
Off4 == x4 = Off /\ Off5
Off3 == x3 = Off /\ Off4

-----------------------------------------------------------------------------
(* Two lists; five elements, among them two pairs of equal ones.           *)
Lists == INSTANCE LinkedList WITH
    Null <- Nil, Elems <- 1 .. 5, Val <- <<1, 1, 2, 2, 3>>, Lists <- {1, 2}, k <- x1, spec <- x2

(* Bitmaps of up to five bits in words of three.                           *)
Bitmaps == INSTANCE Bitmap WITH
    Null <- Nil, ELEM_BITS <- 3, MaxBits <- 5, b <- x1, heap <- x2, file <- x3, ideal <- x4

(* Five keys, one of them twice; hash functions that put all of them into  *)
(* one chain, that spread them, and that part pairs when the table grows.  *)
Tables == INSTANCE Hash WITH
    Null <- Nil, Elems <- ((1 .. 5) \X {1}) \cup {<<1, 2>>},
    HashFunctions <- {<<5, 5, 5, 5, 5>>, <<1, 2, 3, 4, 5>>, <<2, 0, 10, 8, 10>>},
    MinBuckets <- 2, BEST_ELEMS_PER_BUCKET <- 1,
    alive <- x1, hash <- x2, buckets <- x3, elem_cnt <- x4, arrays <- x5, starved <- x6, iter <- x7, table <- x8

(* Words of four bits.                                                     *)
Division == INSTANCE Arithmetic WITH W <- 4, n <- x1, d <- x2, ret <- x3

(* Five bytes of memory.                                                   *)
Strings == INSTANCE Cstring WITH
    N <- 5, Chars <- {1, 2}, MaxTokens <- 4, mem <- x1, call <- x2, old <- x3, save <- x4, tokens <- x5

(* Arrays of up to six elements with four keys; an 8-bit int.              *)
Sorting == INSTANCE Stdlib WITH
    Keys <- 1 .. 4, MaxCnt <- 6, Digits <- {0, 1, 2, 8}, MaxStr <- 5, IntMax <- 127,
    input <- x1, call <- x2, array <- x3

(* Types of 4, 8 and 12 bits for char, int and long; conversions with all  *)
(* flags, and formats of two conversions that take arguments in turn.      *)
Star == 1000
None == -1
Conv(flags, widths, precisions, types, convs) ==
    [flags : flags, width : widths, precision : precisions, type : types, conv : convs]
Literal == [flags |-> {}, width |-> 0, precision |-> None, type |-> "INT", conv |-> "literal"]
Items ==
    Conv(SUBSET {"MINUS", "PLUS", "SPACE", "POUND", "ZERO"}, {0, 5, Star}, {None, 0, 3, Star}, {"INT"}, {"d", "o", "x"})
    \cup Conv({{}, {"POUND"}, {"GROUP"}}, {0, 6}, {None, 3}, {"CHAR", "INT", "LONG"}, {"d", "u", "x", "o", "p"})
    \cup Conv({{}, {"MINUS"}, {"ZERO"}}, {0, 3, Star}, {None, 0, 2, Star}, {"INT"}, {"c", "s"})
Pairs == Conv({{}, {"ZERO"}}, {0, Star}, {None, Star}, {"INT"}, {"d", "s"})
Printing == INSTANCE Stdio WITH
    Formats <- {<<i>> : i \in Items} \cup {<<Literal, i, Literal, j>> : i, j \in Pairs},
    ArgLists <- {<<a, b, 9, 2, 1, 3>> : a \in {-6, 0, 7, 128, 2047}, b \in {-1, 9}},
    BufSizes <- {0, 4}, Bits <- [CHAR |-> 4, INT |-> 8, LONG |-> 12], MaxWidth <- 9, DigitBuf <- 8,
    fmt <- x1, args <- x2, size <- x3, out <- x4, buf <- x5, ret <- x6

-----------------------------------------------------------------------------
Init ==
    \/ unit = "lists" /\ Lists!Init /\ Off3
    \/ unit = "bitmap" /\ Bitmaps!Init /\ Off5
    \/ unit = "hash" /\ Tables!Init
    \/ unit = "division" /\ Division!Init /\ Off4
    \/ unit = "strings" /\ Strings!Init /\ Off6
    \/ unit = "sorting" /\ Sorting!Init /\ Off4
    \/ unit = "printing" /\ Printing!Init /\ Off7

UnitStep ==
    \/ unit = "lists" /\ Lists!Next /\ UNCHANGED From3
    \/ unit = "bitmap" /\ Bitmaps!Next /\ UNCHANGED From5
    \/ unit = "hash" /\ Tables!Next
    \/ unit = "division" /\ Division!Next /\ UNCHANGED From4
    \/ unit = "strings" /\ Strings!Next /\ UNCHANGED From6
    \/ unit = "sorting" /\ Sorting!Next /\ UNCHANGED From4
    \/ unit = "printing" /\ Printing!Next /\ UNCHANGED From7

Next == UnitStep /\ UNCHANGED unit

Spec == Init /\ [][Next]_vars

-----------------------------------------------------------------------------
(* Lists: prev is everywhere the inverse of next, and following next gives   *)
(* the sequence that insertion, removal, splicing, reversal, unique and a    *)
(* stable sort ought to produce; list_max and list_min return the first      *)
(* extreme element.  Bitmaps: the words hold exactly the bits that were set, *)
(* bitmap_scan finds the first run, no block is lost when an allocation      *)
(* fails.  Hash tables: hash_find finds what is there though rehash may fail *)
(* at any time, the buckets follow the elements, iteration meets every one.  *)
ContainersFollowReference ==
    /\ unit = "lists" => Lists!PrevMirrorsNext /\ Lists!NextFollowsSpec /\ Lists!FirstExtremes
    /\ unit = "bitmap" => Bitmaps!WordsHoldTheBits /\ Bitmaps!ScanFindsFirstRun /\ Bitmaps!BitmapNoLeak
    /\ unit = "hash" =>
        Tables!FindsWhatIsThere /\ Tables!BucketsFollowElements /\ Tables!IterationVisitsAll

(* __udivdi3 and __divdi3 return the quotient and DIVL never traps on the    *)
(* way; the remainders are right for divisors of a word.  The string.c       *)
(* functions leave the right bytes, stay in bounds, search and compare       *)
(* right, and strtok_r cuts at the delimiters each call brings.  qsort       *)
(* returns a sorted permutation, bsearch finds what is there, atoi is right  *)
(* for every number that an int can hold.                                    *)
RoutinesFollowReference ==
    /\ unit = "division" => Division!UnsignedQuotient /\ Division!SignedQuotient /\ Division!WordRemainders
    /\ unit = "strings" =>
        Strings!MovesBlocks /\ Strings!BoundedCopies /\ Strings!SearchesAgree /\ Strings!TokensPartition
    /\ unit = "sorting" => Sorting!SortedPermutation /\ Sorting!SearchIsExact /\ Sorting!AtoiInRange

(* vsnprintf stays in its buffer, terminates and returns the full length;    *)
(* each conversion spells its argument with sign and precision, padded on    *)
(* the side and with the characters its flags ask for, and format_integer    *)
(* never overruns its digit buffer.                                          *)
FormatsFollowReference ==
    unit = "printing" =>
        Printing!BufferBounded /\ Printing!SpellsValue /\ Printing!FieldIsFilled /\ Printing!DigitsFitBuffer
=============================================================================
