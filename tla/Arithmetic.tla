----------------------------- MODULE Arithmetic -----------------------------
(***************************************************************************)
(* lib/arithmetic.c: 64-bit division out of the x86 DIVL instruction,      *)
(* which divides two words by one and traps when the quotient needs more   *)
(* than a word.  Words have W bits here, for 32: everything the code does  *)
(* depends on the width only through the shifts and masks it is written    *)
(* with, and for a small W all operands can be tried.                      *)
(***************************************************************************)
EXTENDS Integers

CONSTANTS W       \* bits of a word, a power of 2

B == 2 ^ W                             \* 1ULL << 32
Double == 0 .. B * B - 1               \* uint64_t
Word(x) == x % B                       \* conversion to uint32_t
Wrap(x) == x % (B * B)                 \* conversion to uint64_t
Signed(x, range) == IF x % range < range \div 2 THEN x % range ELSE (x % range) - range
SDouble == -((B * B) \div 2) .. ((B * B) \div 2) - 1
abs(x) == IF x < 0 THEN -x ELSE x
Trap == -(B * B)                       \* the divide error

VARIABLES n, d, ret
vars == <<n, d, ret>>

-----------------------------------------------------------------------------
divl(x, y) == IF y = 0 \/ x \div y >= B THEN Trap ELSE x \div y

RECURSIVE Halve(_, _, _)
Halve(x, zeros, step) ==
    LET y == IF x < 2 ^ (W - step) THEN x * 2 ^ step ELSE x
        z == IF x < 2 ^ (W - step) THEN zeros + step ELSE zeros
    IN  IF step = 1 THEN z ELSE Halve(y, z, step \div 2)
nlz(x) == Halve(x, 0, W \div 2)

(* The estimate q is right or one too big.                                   *)
Correct(x, y, q) == IF Wrap(x - Wrap((q - 1) * y)) < y THEN Wrap(q - 1) ELSE q

udiv64(x, y) ==
    IF y \div B = 0
    THEN LET q == divl(B * ((x \div B) % y) + Word(x), y)
         IN  IF q = Trap THEN Trap ELSE q + B * ((x \div B) \div y)
    ELSE IF x < y THEN 0
    ELSE LET s == nlz(y \div B)
             q == divl(x \div 2, Wrap(y * 2 ^ s) \div B)
         IN  IF q = Trap THEN Trap ELSE Correct(x, y, q \div 2 ^ (W - 1 - s))

umod64(x, y) == Word(Wrap(x - y * udiv64(x, y)))

(* Mutant: the sign of the quotient is the sign of the dividend.             *)
Sign_dividend(x, y) == IF x >= 0 THEN 1 ELSE -1
Sign(x, y) == IF (x < 0) = (y < 0) THEN 1 ELSE -1

sdiv64(x, y) == LET q == udiv64(abs(x), abs(y)) IN
                IF q = Trap THEN Trap ELSE Signed(Sign(x, y) * q, B * B)

(* Mutant: the remainder is taken of the magnitudes.                         *)
smod64_magnitude(x, y) == Signed(umod64(abs(x), abs(y)), B)
smod64(x, y) == Signed(Signed(x - y * sdiv64(x, y), B * B), B)

-----------------------------------------------------------------------------
(* Any operands but a zero divisor; the four routines that GCC calls.        *)
Init == n \in SDouble /\ d \in SDouble \ {0} /\ ret = <<"none">>

U(x) == Wrap(x)
(* Mutant: the unsigned routine calls the signed one.                        *)
udivdi3_signed == ret' = <<"udivdi3", Wrap(sdiv64(n, d))>>
udivdi3 == ret' = <<"udivdi3", udiv64(U(n), U(d))>>
umoddi3 == ret' = <<"umoddi3", umod64(U(n), U(d))>>
divdi3 == ret' = <<"divdi3", sdiv64(n, d)>>
moddi3 == ret' = <<"moddi3", smod64(n, d)>>

Next == ret = <<"none">> /\ (udivdi3 \/ umoddi3 \/ divdi3 \/ moddi3) /\ UNCHANGED <<n, d>>

Spec == Init /\ [][Next]_vars

-----------------------------------------------------------------------------
(* C's division: towards zero, the remainder with the sign of the dividend.  *)
Quot(x, y) == (IF (x < 0) = (y < 0) THEN 1 ELSE -1) * (abs(x) \div abs(y))
Rem(x, y) == x - y * Quot(x, y)

(* udiv64 returns the quotient for all operands, and none of its uses of     *)
(* divl traps ("this code is correct and will not trap").                    *)
UnsignedQuotient == ret[1] = "udivdi3" => ret[2] = U(n) \div U(d)

(* sdiv64 returns the quotient towards zero, for the smallest dividend and   *)
(* divisor too, whose magnitudes do not fit a signed integer; the smallest   *)
(* divided by -1 wraps around to itself.                                     *)
SignedQuotient == ret[1] = "divdi3" => ret[2] = Signed(Quot(n, d), B * B)

(* The remainders are right whenever they fit the word that umod64 and       *)
(* smod64 return: for every divisor of up to a word's magnitude.             *)
WordRemainders ==
    /\ ret[1] = "umoddi3" /\ U(d) <= B => ret[2] = U(n) % U(d)
    /\ ret[1] = "moddi3" /\ abs(d) <= B \div 2 => ret[2] = Rem(n, d)

(* "Divides unsigned 64-bit N by unsigned 64-bit D and returns the           *)
(* remainder."                                                               *)
(* The code does not keep it: README.md, "Disagreements".                    *)
UnsignedRemainder == ret[1] = "umoddi3" => ret[2] = U(n) % U(d)
=============================================================================
