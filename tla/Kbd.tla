--------------------------------- MODULE Kbd ---------------------------------
(***************************************************************************)
(* devices/kbd.c: the scancodes of keys being pressed and released, the    *)
(* state of the shift keys, and the character that goes to the input       *)
(* buffer.  Characters and scancodes are their codes.  A keyboard that     *)
(* sends a scancode for every key going down or up is the environment.     *)
(***************************************************************************)
EXTENDS Integers, Sequences

CONSTANTS
    Keys,       \* scancodes of the keys somebody presses
    MaxKeys     \* bound on key_cnt

VARIABLES
    shift_state, \* left_shift, right_shift, left_alt, ...: by scancode
    caps_lock, key_cnt,
    last,        \* the last character handed to input_putc, with its scancode
    held,        \* environment: the keys that are down
    caps_on      \* environment: Caps Lock was pressed an odd number of times

vars == <<shift_state, caps_lock, key_cnt, last, held, caps_on>>

(* Rows of a keymap: the first scancode and the characters from there on.  *)
invariant_keymap == <<
    [first |-> 1, chars |-> <<27>>],
    [first |-> 14, chars |-> <<8>>],
    [first |-> 15, chars |-> <<9, 81, 87, 69, 82, 84, 89, 85, 73, 79, 80>>],
    [first |-> 28, chars |-> <<13>>],
    [first |-> 30, chars |-> <<65, 83, 68, 70, 71, 72, 74, 75, 76>>],
    [first |-> 44, chars |-> <<90, 88, 67, 86, 66, 78, 77>>],
    [first |-> 55, chars |-> <<42>>],
    [first |-> 57, chars |-> <<32>>] >>
unshifted_keymap == <<
    [first |-> 2, chars |-> <<49, 50, 51, 52, 53, 54, 55, 56, 57, 48, 45, 61>>],
    [first |-> 26, chars |-> <<91, 93>>],
    [first |-> 39, chars |-> <<59, 39, 96>>],
    [first |-> 43, chars |-> <<92>>],
    [first |-> 51, chars |-> <<44, 46, 47>>] >>
shifted_keymap == <<
    [first |-> 2, chars |-> <<33, 64, 35, 36, 37, 94, 38, 42, 40, 41, 95, 43>>],
    [first |-> 26, chars |-> <<123, 125>>],
    [first |-> 39, chars |-> <<58, 34, 126>>],
    [first |-> 43, chars |-> <<124>>],
    [first |-> 51, chars |-> <<60, 62, 63>>] >>

Rows(k, code) ==
    {i \in 1..Len(k) : code >= k[i].first /\ code < k[i].first + Len(k[i].chars)}

(* map_key: whether code is in the map, and the character of its first row. *)
Mapped(k, code) == Rows(k, code) # {}
map_key(k, code) ==
    LET i == CHOOSE i \in Rows(k, code) : \A j \in Rows(k, code) : i <= j
    IN  k[i].chars[code - k[i].first + 1]

shift_keys == {42, 54, 56, 57400, 29, 57373}
left_shift == 42
right_shift == 54
left_alt == 56
right_alt == 57400    \* 0xe038
left_ctrl == 29
right_ctrl == 57373   \* 0xe01d
CapsLock == 58

Init ==
    /\ shift_state = [k \in shift_keys |-> FALSE]
    /\ caps_lock = FALSE
    /\ key_cnt = 0
    /\ last = <<0, 0>>
    /\ held = {}
    /\ caps_on = FALSE

(* external: what the keyboard sends for a key going down or up: a prefix   *)
(* 0xe0 for the keys above 0xe000, and bit 0x80 in the last byte for a      *)
(* release.                                                                 *)
Scancode(key, up) ==
    LET b == (key % 256) + (IF up THEN 128 ELSE 0)
    IN  IF key >= 57344 THEN <<224, b>> ELSE <<b>>

tolower(c) == IF c \in 65..90 THEN c + 32 ELSE c

(* Mutant: Ctrl does not override Shift.                                    *)
TranslatedShiftFirst(c, shift, ctrl, alt) ==
    LET d == IF shift = caps_lock THEN tolower(c)
             ELSE IF ctrl /\ c >= 64 /\ c < 96 THEN c - 64
             ELSE c
    IN  IF alt THEN d + 128 ELSE d

(* The handling of Ctrl, Shift, Caps Lock and Alt.                          *)
Translated(c, shift, ctrl, alt) ==
    LET d == IF ctrl /\ c >= 64 /\ c < 96 THEN c - 64
             ELSE IF shift = caps_lock THEN tolower(c)
             ELSE c
    IN  IF alt THEN d + 128 ELSE d

(* Mutant: the prefix is dropped.                                           *)
CodeNoPrefix(bytes) == bytes[Len(bytes)]

(* The scancode read from DATA_REG, still with the release bit.             *)
Code(bytes) == IF bytes[1] = 224 THEN 57344 + bytes[2] ELSE bytes[1]

(* keyboard_interrupt on the bytes in the data register; full is            *)
(* input_full().                                                            *)
keyboard_interrupt(bytes, full) ==
    LET shift == shift_state[left_shift] \/ shift_state[right_shift]
        alt == shift_state[left_alt] \/ shift_state[right_alt]
        ctrl == shift_state[left_ctrl] \/ shift_state[right_ctrl]
        release == (Code(bytes) \div 128) % 2 = 1
        code == IF release THEN Code(bytes) - 128 ELSE Code(bytes)
        other == IF shift THEN shifted_keymap ELSE unshifted_keymap
        c == IF Mapped(invariant_keymap, code) THEN map_key(invariant_keymap, code)
                                               ELSE map_key(other, code)
        char == Mapped(invariant_keymap, code) \/ Mapped(other, code)
    IN  /\ caps_lock' = IF code = CapsLock /\ ~release THEN ~caps_lock ELSE caps_lock
        /\ IF code # CapsLock /\ char /\ ~release /\ ~full
           THEN /\ key_cnt' = key_cnt + 1
                /\ last' = <<code, Translated(c, shift, ctrl, alt)>>
           ELSE UNCHANGED <<key_cnt, last>>
        /\ shift_state' = IF code # CapsLock /\ ~char /\ code \in shift_keys
                          THEN [shift_state EXCEPT ![code] = ~release] ELSE shift_state

(* A key goes down, repeats while it is down, or goes up.                   *)
Press(key, full) ==
    /\ key_cnt < MaxKeys
    /\ keyboard_interrupt(Scancode(key, FALSE), full)
    /\ held' = held \cup {key}
    /\ caps_on' = IF key = CapsLock THEN ~caps_on ELSE caps_on

Release(key) ==
    /\ key \in held
    /\ keyboard_interrupt(Scancode(key, TRUE), FALSE)
    /\ held' = held \ {key}
    /\ UNCHANGED caps_on

Next ==
    \/ \E key \in Keys, full \in BOOLEAN : Press(key, full)
    \/ \E key \in Keys : Release(key)

Spec == Init /\ [][Next]_vars

-----------------------------------------------------------------------------
(* keyboard_interrupt: whatever keys went down and up, in whatever order and *)
(* with whatever prefixes and repeats, the shift variables say which shift   *)
(* keys are down now, and Caps Lock was toggled once per press.              *)
ModifiersFollowKeys ==
    /\ \A k \in shift_keys \cap Keys : shift_state[k] <=> k \in held
    /\ caps_lock = caps_on

Down(ks) == ks \cap held # {}

(* The character a key stands for, read off its cap: letters are capital    *)
(* when exactly one of Shift and Caps Lock is in effect, Ctrl with a         *)
(* character of 0x40-0x5f gives the control character, Alt sets bit 7.       *)
CharOf(key) ==
    LET maps == {invariant_keymap,
                 IF Down({left_shift, right_shift}) THEN shifted_keymap ELSE unshifted_keymap}
        cap == {map_key(k, key) : k \in {j \in maps : Mapped(j, key)}}
        c == CHOOSE c \in cap : TRUE
        cased == IF c \in 65..90 /\ Down({left_shift, right_shift}) = caps_on THEN c + 32 ELSE c
        controlled == IF Down({left_ctrl, right_ctrl}) /\ c \in 64..95 THEN c - 64 ELSE cased
    IN  controlled + (IF Down({left_alt, right_alt}) THEN 128 ELSE 0)

(* keyboard_interrupt: the character it appends is the one its key stands    *)
(* for under the modifiers that are down and the Caps Lock presses so far.   *)
KeyStep == key_cnt' # key_cnt => last'[2] = CharOf(last'[1])
KeyGivesItsCharacter == [][KeyStep]_vars
=============================================================================
