------------------------------- MODULE Stdio -------------------------------
(***************************************************************************)
(* lib/stdio.c: vsnprintf, and __vprintf with its conversions, for one     *)
(* format string.  The text of a format is its syntax: literal characters  *)
(* and conversions of flags, width, precision, type and letter.  Arguments *)
(* are bit patterns, taken in order; integer types are narrower than in C. *)
(***************************************************************************)
EXTENDS Integers, Sequences, SequencesExt

CONSTANTS
    Formats,      \* sequences of items
    ArgLists,     \* sequences of arguments
    BufSizes,     \* values of BUF_SIZE
    Bits,         \* bits of an integer type: a function on types
    MaxWidth,     \* bound on the widths given by `*'
    DigitBuf      \* sizeof buf in format_integer

(* Characters: the digits 0 .. 15, and                                       *)
Space == 16
Plus == 17
Minus == 18
Comma == 19
X == 20
Letter == 21     \* any other
Nul == 22
Junk == 23       \* what the buffer held before

Star == 1000     \* a width or precision of `*'
None == -1

VARIABLES
    fmt, args, size,   \* the call
    out,               \* the characters __vprintf wrote to its OUTPUT
    buf, ret           \* the buffer, and what vsnprintf returned

vars == <<fmt, args, size, out, buf, ret>>

Room == 8
Init ==
    /\ fmt \in Formats /\ args \in ArgLists /\ size \in BufSizes
    /\ \A i \in DOMAIN fmt : fmt[i].width = Star => args[1] \in -MaxWidth .. MaxWidth
    /\ out = <<>> /\ ret = None
    /\ buf = [i \in 1 .. Room |-> Junk]

-----------------------------------------------------------------------------
Unsigned(v, type) == v % 2 ^ Bits[type]
Signed(v, type) == LET u == Unsigned(v, type) IN
                   IF u < 2 ^ (Bits[type] - 1) THEN u ELSE u - 2 ^ Bits[type]

base_d == [base |-> 10, x |-> FALSE, group |-> 3]
base_o == [base |-> 8, x |-> FALSE, group |-> 3]
base_x == [base |-> 16, x |-> TRUE, group |-> 4]

(* Width and precision, taken from the arguments at POS if they are `*'.  A  *)
(* negative width is a MINUS flag, which comes too late to cancel ZERO.      *)
parse_conversion(item, a, pos) ==
    LET f0 == item.flags \ (IF "MINUS" \in item.flags THEN {"ZERO"} ELSE {})
        f1 == f0 \ (IF "PLUS" \in item.flags THEN {"SPACE"} ELSE {})
        w == IF item.width = Star THEN a[pos] ELSE item.width
        pos1 == IF item.width = Star THEN pos + 1 ELSE pos
        f2 == IF w < 0 THEN f1 \cup {"MINUS"} ELSE f1
        p == IF item.precision = Star THEN a[pos1] ELSE item.precision
    IN  [flags |-> IF p >= 0 THEN f2 \ {"ZERO"} ELSE f2,
         width |-> IF w < 0 THEN -w ELSE w,
         precision |-> IF p < 0 THEN None ELSE p,
         pos |-> IF item.precision = Star THEN pos1 + 1 ELSE pos1]

output_dup(ch, cnt) == [i \in 1 .. IF cnt > 0 THEN cnt ELSE 0 |-> ch]

(* The digit buffer is filled from the last digit on.                        *)
RECURSIVE Accumulate(_, _, _, _)
Accumulate(value, b, group, s) ==
    IF value = 0 THEN s
    ELSE LET cnt == Len(SelectSeq(s, LAMBDA c : c # Comma))
             s1 == IF group /\ cnt > 0 /\ cnt % b.group = 0 THEN Append(s, Comma) ELSE s
         IN  Accumulate(value \div b.base, b, group, Append(s1, value % b.base))
(* Mutant: the zeros of a large precision are not stopped by the buffer.     *)
ZeroFill_all(s, precision) == s \o output_dup(0, precision - Len(s))
ZeroFill(s, precision) ==
    s \o output_dup(0, (IF precision < DigitBuf - 1 THEN precision ELSE DigitBuf - 1) - Len(s))
DigitsOf(value, b, c) ==
    LET s == ZeroFill(Accumulate(value, b, "GROUP" \in c.flags, <<>>),
                      IF c.precision < 0 THEN 1 ELSE c.precision)
    IN  IF "POUND" \in c.flags /\ b.base = 8 /\ (s = <<>> \/ s[Len(s)] # 0) THEN Append(s, 0) ELSE s

(* Mutant: a SPACE flag hides the sign of a negative value.                  *)
SignOf_space(is_signed, negative, flags) ==
    IF ~is_signed THEN <<>>
    ELSE IF "PLUS" \in flags THEN <<IF negative THEN Minus ELSE Plus>>
    ELSE IF "SPACE" \in flags THEN <<Space>>
    ELSE IF negative THEN <<Minus>> ELSE <<>>
SignOf(is_signed, negative, flags) ==
    IF ~is_signed THEN <<>>
    ELSE IF negative THEN <<Minus>>
    ELSE IF "PLUS" \in flags THEN <<Plus>>
    ELSE IF "SPACE" \in flags THEN <<Space>> ELSE <<>>

(* Mutant: the 0x is not counted as part of the field.                       *)
PadCnt_prefix(width, sign, x, digits) == width - Len(digits) - Len(sign)
PadCnt(width, sign, x, digits) == width - Len(digits) - Len(x) - Len(sign)

format_integer(value, is_signed, negative, b, c) ==
    LET digits == DigitsOf(value, b, c)
        sign == SignOf(is_signed, negative, c.flags)
        x == IF "POUND" \in c.flags /\ value > 0 /\ b.x THEN <<0, X>> ELSE <<>>
        pad == PadCnt(c.width, sign, x, digits)
        when(cond, s) == IF cond THEN s ELSE <<>>
    IN  when(c.flags \cap {"MINUS", "ZERO"} = {}, output_dup(Space, pad)) \o sign \o x
        \o when("ZERO" \in c.flags, output_dup(0, pad)) \o Reverse(digits)
        \o when("MINUS" \in c.flags, output_dup(Space, pad))

format_string(s, c) ==
    LET pad == output_dup(Space, c.width - Len(s))
    IN  IF "MINUS" \in c.flags THEN s \o pad ELSE pad \o s

(* An argument stands for a string of few letters, a negative one for the    *)
(* null pointer, which prints as "(null)".                                   *)
StringArg(a, precision) ==
    LET length == IF a < 0 THEN 6 ELSE a % 4
    IN  output_dup(Letter, IF precision >= 0 /\ precision < length THEN precision ELSE length)

Convert(item, c, v) ==
    CASE item.conv = "d" -> LET s == Signed(v, item.type) IN  format_integer(IF s < 0 THEN -s ELSE s, TRUE, s < 0, base_d, c)
      [] item.conv = "u" -> format_integer(Unsigned(v, item.type), FALSE, FALSE, base_d, c)
      [] item.conv = "o" -> format_integer(Unsigned(v, item.type), FALSE, FALSE, base_o, c)
      [] item.conv = "x" -> format_integer(Unsigned(v, item.type), FALSE, FALSE, base_x, c)
      [] item.conv = "p" -> format_integer(Unsigned(v, "LONG"), FALSE, FALSE, base_x, [c EXCEPT !.flags = {"POUND"}])
      [] item.conv = "c" -> format_string(<<Letter>>, c)
      [] item.conv = "s" -> format_string(StringArg(v, c.precision), c)

RECURSIVE VprintfFrom(_, _, _)
VprintfFrom(f, a, pos) ==
    IF f = <<>> THEN <<>>
    ELSE IF f[1].conv = "literal" THEN <<Letter>> \o VprintfFrom(Tail(f), a, pos)
    ELSE LET c == parse_conversion(f[1], a, pos)
         IN  Convert(f[1], c, a[c.pos]) \o VprintfFrom(Tail(f), a, c.pos + 1)
vprintf(f, a) == VprintfFrom(f, a, 1)

(* Mutant: the character that fills the buffer is stored as well.            *)
Stored_full(length, max_length) == length <= max_length
(* vsnprintf_helper stores a character when LENGTH have gone before.         *)
Stored(length, max_length) == length < max_length

vsnprintf ==
    /\ ret = None
    /\ LET max_length == IF size > 0 THEN size - 1 ELSE 0
           o == vprintf(fmt, args)
           stored == SelectSeq([i \in 1 .. Len(o) |-> <<o[i], i - 1>>], LAMBDA e : Stored(e[2], max_length))
           end == Len(stored)
       IN  /\ out' = o /\ ret' = Len(o)
           /\ buf' = [i \in 1 .. Room |-> IF i <= end THEN stored[i][1]
                                          ELSE IF i = end + 1 /\ size > 0 THEN Nul ELSE buf[i]]
    /\ UNCHANGED <<fmt, args, size>>

Next == vsnprintf
Spec == Init /\ [][Next]_vars

-----------------------------------------------------------------------------
Done == ret # None
(* The only conversion of a format, as the code has parsed it.               *)
Single == Done /\ Len(fmt) = 1 /\ fmt[1].conv # "literal"
Item == fmt[1]
C == parse_conversion(Item, args, 1)
Arg == args[C.pos]
Integer == Item.conv \in {"d", "u", "o", "x", "p"}
Base == IF Item.conv \in {"d", "u"} THEN 10 ELSE IF Item.conv = "o" THEN 8 ELSE 16
ValueOf == IF Item.conv = "d" THEN Signed(Arg, Item.type)
           ELSE Unsigned(Arg, IF Item.conv = "p" THEN "LONG" ELSE Item.type)
NumberOf(s) == FoldLeft(LAMBDA acc, dgt : acc * Base + dgt, 0, SelectSeq(s, LAMBDA c : c < 16))
Has(c) == \E i \in DOMAIN out : out[i] = c

(* vsnprintf stores the beginning of the output and a terminator within      *)
(* BUF_SIZE bytes, nothing after them and nothing at all when BUF_SIZE is 0, *)
(* and returns the length of the whole output.                               *)
BufferBounded ==
    Done => /\ ret = Len(out)
            /\ \A i \in 1 .. Room :
                 buf[i] = IF i < size /\ i <= Len(out) THEN out[i]
                          ELSE IF size > 0 /\ i = (IF Len(out) < size THEN Len(out) + 1 ELSE size) THEN Nul
                          ELSE Junk

(* Whatever the flags, the digits of the output spell the argument, as its   *)
(* type holds it, in the conversion's base, and there is a minus sign if     *)
(* and only if it is negative.                                               *)
SpellsValue ==
    Single /\ Integer =>
        /\ NumberOf(out) = (IF ValueOf < 0 THEN -ValueOf ELSE ValueOf)
        /\ Has(Minus) = (ValueOf < 0)
        /\ "POUND" \in C.flags /\ Item.conv = "o" =>
              out[CHOOSE i \in DOMAIN out : out[i] < 16 /\ \A j \in 1 .. i - 1 : out[j] >= 16] = 0

(* What a conversion prints before it is padded: sign and 0x, and the rest.  *)
Magnitude == IF ValueOf < 0 THEN -ValueOf ELSE ValueOf
Flagged == IF Item.conv = "p" THEN [C EXCEPT !.flags = {"POUND"}] ELSE C
BaseOf == IF Base = 10 THEN base_d ELSE IF Base = 8 THEN base_o ELSE base_x
Leading == IF ~Integer THEN <<>>
         ELSE SignOf(Item.conv = "d", ValueOf < 0, C.flags)
              \o (IF "POUND" \in Flagged.flags /\ Base = 16 /\ Magnitude > 0 THEN <<0, X>> ELSE <<>>)
Rest == IF Integer THEN Reverse(DigitsOf(Magnitude, BaseOf, Flagged))
        ELSE IF Item.conv = "c" THEN <<Letter>> ELSE StringArg(Arg, C.precision)
Missing == C.width - Len(Leading \o Rest)

(* The output is padded to the field width once: with blanks on the right if *)
(* it is left-justified, else with zeros after sign and 0x if ZERO asks for  *)
(* them in a number, else with blanks on the left.  Except that a negative   *)
(* `*' width does not cancel ZERO.                                           *)
LateMinus == Item.width = Star /\ args[1] < 0 /\ "ZERO" \in Item.flags
FieldIsFilled ==
    Single /\ ~LateMinus =>
        out = CASE "MINUS" \in Flagged.flags -> Leading \o Rest \o output_dup(Space, Missing)
                [] "MINUS" \notin Flagged.flags /\ "ZERO" \in Flagged.flags /\ Integer ->
                       Leading \o output_dup(0, Missing) \o Rest
                [] OTHER -> output_dup(Space, Missing) \o Leading \o Rest

(* "Buffer and current position.": the digits stay in format_integer's       *)
(* buffer, for any precision and with all flags.                             *)
DigitsFitBuffer ==
    Single /\ Integer =>
        Len(DigitsOf(Magnitude, BaseOf, Flagged)) <= DigitBuf

(* "Calculate number of pad characters to fill field width.": the output is  *)
(* as long as the field, or as what does not fit it.                         *)
(* The code does not keep it: README.md, "Disagreements".                    *)
PaddedToWidth ==
    Single => Len(out) = Len(Leading \o Rest) + Len(output_dup(Space, Missing))
=============================================================================
