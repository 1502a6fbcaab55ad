------------------------------ MODULE Cstring ------------------------------
(***************************************************************************)
(* lib/string.c on a small memory: blocks and null-terminated strings at   *)
(* any address of it, overlapping or not as the functions allow.  One call *)
(* of a function, or a series of calls of strtok_r on one string.          *)
(***************************************************************************)
EXTENDS Integers, Sequences, FiniteSetsExt

CONSTANTS
    N,          \* bytes of memory
    Chars,      \* nonzero bytes
    MaxTokens   \* bound on the calls of strtok_r

Addr == 0 .. N - 1
Null == -1

VARIABLES
    mem,     \* Addr -> bytes
    call,    \* the call that was made: function, arguments, result
    old,     \* mem before the call
    save,    \* *save_ptr, or Null before the first call
    tokens   \* what strtok_r returned: [from, start, end, delims], start Null at the end

vars == <<mem, call, old, save, tokens>>

Idle == <<"idle">>
Init ==
    /\ mem \in [Addr -> Chars \cup {0}]
    /\ call = Idle /\ old = mem /\ save = Null /\ tokens = <<>>

(* A string starts at p.                                                     *)
Terminated(m, p) == \E i \in p .. N - 1 : m[i] = 0

-----------------------------------------------------------------------------
RECURSIVE CopyUp(_, _, _, _)
CopyUp(m, dst, src, size) ==
    IF size = 0 THEN m ELSE CopyUp([m EXCEPT ![dst] = m[src]], dst + 1, src + 1, size - 1)
RECURSIVE CopyDown(_, _, _, _)
CopyDown(m, dst, src, size) ==
    IF size = 0 THEN m
    ELSE CopyDown([m EXCEPT ![dst + size - 1] = m[src + size - 1]], dst, src, size - 1)

memcpy(m, dst, src, size) == CopyUp(m, dst, src, size)
(* Mutant: always from the first byte to the last.                           *)
memmove_up(m, dst, src, size) == CopyUp(m, dst, src, size)
memmove(m, dst, src, size) ==
    IF dst < src THEN CopyUp(m, dst, src, size) ELSE CopyDown(m, dst, src, size)
(* memmove's result: its own DST, where the loop left it.                    *)
MovedTo(dst, src, size) == IF dst < src THEN dst + size ELSE dst
RECURSIVE memset(_, _, _, _)
memset(m, dst, value, size) ==
    IF size = 0 THEN m ELSE memset([m EXCEPT ![dst] = value], dst + 1, value, size - 1)

RECURSIVE memcmp(_, _, _, _)
memcmp(m, a, b, size) ==
    IF size = 0 THEN 0
    ELSE IF m[a] # m[b] THEN (IF m[a] > m[b] THEN 1 ELSE -1)
    ELSE memcmp(m, a + 1, b + 1, size - 1)
RECURSIVE strcmp(_, _, _)
strcmp(m, a, b) ==
    IF m[a] # 0 /\ m[a] = m[b] THEN strcmp(m, a + 1, b + 1)
    ELSE IF m[a] < m[b] THEN -1 ELSE IF m[a] > m[b] THEN 1 ELSE 0
RECURSIVE memchr(_, _, _, _)
memchr(m, p, c, size) ==
    IF size = 0 THEN Null ELSE IF m[p] = c THEN p ELSE memchr(m, p + 1, c, size - 1)
RECURSIVE strchr(_, _, _)
strchr(m, p, c) == IF m[p] = c THEN p ELSE IF m[p] = 0 THEN Null ELSE strchr(m, p + 1, c)
RECURSIVE Spn(_, _, _, _, _)
Spn(m, s, set, in, length) ==
    IF m[s + length] = 0 \/ (strchr(m, set, m[s + length]) # Null) # in THEN length
    ELSE Spn(m, s, set, in, length + 1)
strcspn(m, s, stop) == Spn(m, s, stop, FALSE, 0)
strspn(m, s, skip) == Spn(m, s, skip, TRUE, 0)
RECURSIVE strpbrk(_, _, _)
strpbrk(m, s, stop) ==
    IF m[s] = 0 THEN Null ELSE IF strchr(m, stop, m[s]) # Null THEN s ELSE strpbrk(m, s + 1, stop)
RECURSIVE LastFrom(_, _, _, _)
LastFrom(m, s, c, p) == IF m[s] = 0 THEN p ELSE LastFrom(m, s + 1, c, IF m[s] = c THEN s ELSE p)
strrchr(m, s, c) == LastFrom(m, s, c, Null)
RECURSIVE strnlen(_, _, _, _)
strnlen(m, s, maxlen, length) ==
    IF m[s + length] # 0 /\ length < maxlen THEN strnlen(m, s, maxlen, length + 1) ELSE length
strlen(m, s) == strnlen(m, s, N, 0)

(* Mutant: the last place where the needle fits is not tried.                *)
strstr_short(m, hay, needle) ==
    LET h == strlen(m, hay)
        n == strlen(m, needle)
        found == {i \in 0 .. h - n - 1 : memcmp(m, hay + i, needle, n) = 0}
    IN  IF h >= n /\ found # {} THEN hay + Min(found) ELSE Null
strstr(m, hay, needle) ==
    LET h == strlen(m, hay)
        n == strlen(m, needle)
        found == {i \in 0 .. h - n : memcmp(m, hay + i, needle, n) = 0}
    IN  IF h >= n /\ found # {} THEN hay + Min(found) ELSE Null

strlcpy(m, dst, src, size) ==
    LET n == IF strlen(m, src) < size - 1 THEN strlen(m, src) ELSE size - 1
    IN  IF size > 0 THEN [memcpy(m, dst, src, n) EXCEPT ![dst + n] = 0] ELSE m
(* Mutant: room is left for all of SIZE, not for the terminator.             *)
strlcat_full(m, dst, src, size) ==
    LET d == strlen(m, dst)
        n == IF strlen(m, src) < size - d THEN strlen(m, src) ELSE size - d
    IN  IF size > 0 /\ d < size THEN [memcpy(m, dst + d, src, n) EXCEPT ![dst + d + n] = 0] ELSE m
strlcat(m, dst, src, size) ==
    LET d == strlen(m, dst)
        n == IF strlen(m, src) < size - d - 1 THEN strlen(m, src) ELSE size - d - 1
    IN  IF size > 0 /\ d < size THEN [memcpy(m, dst + d, src, n) EXCEPT ![dst + d + n] = 0] ELSE m

(* strtok_r from s; strchr finds the null byte in every set of delimiters.   *)
RECURSIVE SkipWhile(_, _, _)
SkipWhile(m, s, set) == IF m[s] \in set THEN SkipWhile(m, s + 1, set) ELSE s
(* Mutant: the saved position is the delimiter's, before it is overwritten.  *)
NextSave_same(m, end) == end
(* What strtok_r saves when a token ends at END.                             *)
NextSave(m, end) == IF m[end] # 0 THEN end + 1 ELSE end

-----------------------------------------------------------------------------
Call(f, m, ret) == call' = Append(f, ret) /\ mem' = m /\ UNCHANGED <<old, save, tokens>>

Blocks(size) == 0 .. N - size
Apart(a, b, size) == a + size <= b \/ b + size <= a
(* The string at src, its terminator included, is outside the SIZE bytes at  *)
(* dst.                                                                      *)
SourceApart(m, dst, src, size) ==
    dst + size <= src \/ src + strlen(m, src) + 1 <= dst

MemoryCall ==
    \E size \in 0 .. N : \E dst, src \in Blocks(size), c \in Chars :
        \/ Call(<<"memmove", dst, src, size>>, memmove(mem, dst, src, size), MovedTo(dst, src, size))
        \/ Apart(dst, src, size) /\ Call(<<"memcpy", dst, src, size>>, memcpy(mem, dst, src, size), dst)
        \/ Call(<<"memset", dst, c, size>>, memset(mem, dst, c, size), dst)
        \/ Call(<<"memcmp", dst, src, size>>, mem, memcmp(mem, dst, src, size))
        \/ Call(<<"memchr", dst, c, size>>, mem, memchr(mem, dst, c, size))

StringCall ==
    \E a, b \in Addr : Terminated(mem, a) /\ Terminated(mem, b) /\
        \/ Call(<<"strcmp", a, b>>, mem, strcmp(mem, a, b))
        \/ \E c \in Chars \cup {0} : Call(<<"strchr", a, c>>, mem, strchr(mem, a, c))
        \/ \E c \in Chars : Call(<<"strrchr", a, c>>, mem, strrchr(mem, a, c))
        \/ Call(<<"strcspn", a, b>>, mem, strcspn(mem, a, b))
        \/ Call(<<"strspn", a, b>>, mem, strspn(mem, a, b))
        \/ Call(<<"strpbrk", a, b>>, mem, strpbrk(mem, a, b))
        \/ Call(<<"strstr", a, b>>, mem, strstr(mem, a, b))
        \/ \E maxlen \in 0 .. N : Call(<<"strnlen", a, maxlen>>, mem, strnlen(mem, a, maxlen, 0))

CopyCall ==
    \E src \in Addr, size \in 0 .. N : \E dst \in Blocks(size) \cap Addr :
        /\ Terminated(mem, src) /\ SourceApart(mem, dst, src, size)
        /\ \/ Call(<<"strlcpy", dst, src, size>>, strlcpy(mem, dst, src, size), strlen(mem, src))
           \/ /\ Terminated(mem, dst) /\ SourceApart(mem, dst, src, strlen(mem, dst) + 1)
              /\ Call(<<"strlcat", dst, src, size>>, strlcat(mem, dst, src, size),
                      strlen(mem, dst) + strlen(mem, src))

strtok_r ==
    /\ Terminated(old, 0) /\ Len(tokens) < MaxTokens
    /\ \E delims \in SUBSET Chars :
         LET from == IF save = Null THEN 0 ELSE save
             start == SkipWhile(mem, from, delims)
             end == SkipWhile(mem, start, Chars \ delims)
         IN  IF mem[start] = 0
             THEN /\ save' = start /\ UNCHANGED mem
                  /\ tokens' = Append(tokens, [from |-> from, start |-> Null, end |-> start, delims |-> delims])
             ELSE /\ save' = NextSave(mem, end) /\ mem' = [mem EXCEPT ![end] = 0]
                  /\ tokens' = Append(tokens, [from |-> from, start |-> start, end |-> end, delims |-> delims])
    /\ UNCHANGED <<call, old>>

Next ==
    /\ call = Idle
    /\ strtok_r \/ (tokens = <<>> /\ (MemoryCall \/ StringCall \/ CopyCall))

Spec == Init /\ [][Next]_vars

-----------------------------------------------------------------------------
(* The same memory with the bytes of sequence b at dst.                      *)
With(m, dst, b) == [i \in Addr |-> IF i \in dst .. dst + Len(b) - 1 THEN b[i - dst + 1] ELSE m[i]]
Block(m, p, size) == [i \in 1 .. size |-> m[p + i - 1]]
Str(m, p) == Block(m, p, Min({i \in 0 .. N - 1 : p + i \in Addr /\ m[p + i] = 0}))
InStr(s) == {s[i] : i \in DOMAIN s}
First(set) == IF set = {} THEN Null ELSE Min(set)
Last(set) == IF set = {} THEN Null ELSE Max(set)
Lexical(a, b) ==
    LET diff == {i \in 1 .. N + 1 : (i \in DOMAIN a \/ i \in DOMAIN b) /\
                                    ~(i \in DOMAIN a /\ i \in DOMAIN b /\ a[i] = b[i])}
        at(s, i) == IF i \in DOMAIN s THEN s[i] ELSE 0
    IN  IF diff = {} THEN 0 ELSE IF at(a, Min(diff)) > at(b, Min(diff)) THEN 1 ELSE -1

(* memmove leaves at DST what was at SRC, however the two overlap, and       *)
(* touches nothing else; memcpy of blocks that do not overlap and memset     *)
(* too.                                                                      *)
MovesBlocks ==
    /\ call[1] \in {"memmove", "memcpy"} => mem = With(old, call[2], Block(old, call[3], call[4]))
    /\ call[1] = "memset" => mem = With(old, call[2], [i \in 1 .. call[4] |-> call[3]])

(* strlcpy and strlcat write a terminated string of at most SIZE - 1         *)
(* characters, the beginning of what was asked for, touch nothing after its  *)
(* terminator, and return the length it should have had; with SIZE 0, or     *)
(* with no terminator of DST within SIZE, they write nothing.                *)
BoundedCopies ==
    call[1] \in {"strlcpy", "strlcat"} =>
        LET dst == call[2]
            size == call[4]
            was == IF call[1] = "strlcat" THEN Str(old, dst) ELSE <<>>
            whole == was \o Str(old, call[3])
            fits == IF Len(whole) < size THEN Len(whole) ELSE size - 1
        IN  /\ call[5] = Len(whole)
            /\ mem = IF size = 0 \/ Len(was) >= size THEN old
                     ELSE With(old, dst, Append(SubSeq(whole, 1, fits), 0))

(* Comparisons and searches return what the set of matching positions says,  *)
(* at the ends of blocks and strings, with empty strings and sets, and with  *)
(* strings that share their bytes.                                           *)
SearchesAgree ==
    LET a == call[2]
        b == call[3]
        s == Str(mem, a)
        at(set) == {a + i - 1 : i \in {j \in DOMAIN s : s[j] \in set}}
        run(set) == IF at(set) = {} THEN Len(s) ELSE Min(at(set)) - a
    IN  CASE call[1] = "memcmp" -> call[5] = Lexical([i \in 1 .. call[4] |-> mem[a + i - 1] + 1],
                                                     [i \in 1 .. call[4] |-> mem[b + i - 1] + 1])
          [] call[1] = "memchr" -> call[5] = First({p \in a .. a + call[4] - 1 : mem[p] = b})
          [] call[1] = "strcmp" -> call[4] = Lexical(s, Str(mem, b))
          [] call[1] = "strchr" -> call[4] = IF b = 0 THEN a + Len(s) ELSE First(at({b}))
          [] call[1] = "strrchr" -> call[4] = Last(at({b}))
          [] call[1] = "strcspn" -> call[4] = run(InStr(Str(mem, b)))
          [] call[1] = "strspn" -> call[4] = run(Chars \ InStr(Str(mem, b)))
          [] call[1] = "strpbrk" -> call[4] = First(at(InStr(Str(mem, b))))
          [] call[1] = "strstr" -> call[4] = First({p \in a .. a + Len(s) :
                 p + Len(Str(mem, b)) <= a + Len(s) /\ Block(mem, p, Len(Str(mem, b))) = Str(mem, b)})
          [] call[1] = "strnlen" -> call[4] = IF Len(s) < b THEN Len(s) ELSE b
          [] OTHER -> TRUE

(* strtok_r, with delimiters that change from call to call: each token is a  *)
(* nonempty run free of delimiters that ends at a delimiter or at the end;   *)
(* only delimiters are skipped before it, only one after it; nothing is left *)
(* when NULL is returned; and every token is still in place after the later  *)
(* calls have written their null bytes.                                      *)
TokensPartition ==
    LET text == Str(old, 0) \o <<0>>
        char(i) == text[i + 1]
    IN  \A k \in DOMAIN tokens : LET t == tokens[k] IN
            /\ t.from = IF k = 1 THEN 0
                        ELSE IF tokens[k - 1].start # Null /\ char(tokens[k - 1].end) # 0
                             THEN tokens[k - 1].end + 1 ELSE tokens[k - 1].end
            /\ IF t.start = Null
               THEN char(t.end) = 0 /\ \A i \in t.from .. t.end - 1 : char(i) \in t.delims
               ELSE /\ t.start < t.end /\ char(t.end) \in t.delims \cup {0}
                    /\ \A i \in t.from .. t.start - 1 : char(i) \in t.delims
                    /\ \A i \in t.start .. t.end - 1 : char(i) \in Chars \ t.delims
                    /\ Str(mem, t.start) = SubSeq(text, t.start + 1, t.end)

(* "Copies SIZE bytes from SRC to DST, which are allowed to overlap.         *)
(* Returns DST."                                                             *)
(* The code does not keep it: README.md, "Disagreements".                    *)
MemmoveReturnsDst == call[1] = "memmove" => call[5] = call[2]
=============================================================================
