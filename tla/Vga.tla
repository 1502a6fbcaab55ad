--------------------------------- MODULE Vga ---------------------------------
(***************************************************************************)
(* devices/vga.c: the text display.  vga_putc runs with interrupts off, so *)
(* each character is one step.  fb holds the characters only; every        *)
(* attribute written is the same.  The history `text' is the same text on  *)
(* an endless sheet of paper, of which the screen should be the bottom.    *)
(***************************************************************************)
EXTENDS Integers, Sequences

CONSTANTS
    COL_CNT, ROW_CNT,
    Tab,          \* distance of tab stops, 8 in the code
    Byte,         \* values of a cursor register, 256 in the code
    Glyphs,       \* printing characters
    Blank,        \* ' '
    MaxLines      \* bound on the lines of the sheet

Control == {"nl", "ff", "bs", "cr", "tab"}

VARIABLES
    inited, cx, cy, fb,
    cursor,       \* the hardware cursor: high and low register
    text, col     \* history: the sheet and the column on its last line

vars == <<inited, cx, cy, fb, cursor, text, col>>

Columns == 0..COL_CNT - 1
Rows == 0..ROW_CNT - 1
BlankRow == [x \in Columns |-> Blank]

(* The BIOS leaves a blank screen and its cursor somewhere on it.            *)
Init ==
    /\ inited = FALSE /\ cx = 0 /\ cy = 0
    /\ fb = [y \in Rows |-> BlankRow]
    /\ \E x \in Columns, y \in Rows :
         /\ cursor = <<(x + COL_CNT * y) \div Byte, (x + COL_CNT * y) % Byte>>
         /\ text = [i \in 1..y + 1 |-> BlankRow]
         /\ col = x

(* find_cursor: the position the registers encode.                           *)
find_cursor ==
    LET cp == cursor[1] * Byte + cursor[2]
    IN  <<cp % COL_CNT, cp \div COL_CNT>>

(* A display state: cursor column and row, frame buffer.                     *)
At(x, y, f) == [x |-> x, y |-> y, f |-> f]

clear_row(f, y) == [f EXCEPT ![y] = BlankRow]
cls == At(0, 0, [y \in Rows |-> BlankRow])

(* Mutant: the row that scrolls in is not cleared.                           *)
newline_dirty(d) ==
    IF d.y + 1 < ROW_CNT THEN At(0, d.y + 1, d.f)
    ELSE At(0, ROW_CNT - 1, [y \in Rows |-> IF y + 1 < ROW_CNT THEN d.f[y + 1] ELSE d.f[y]])

(* newline: the memmove moves rows 1.. up by one.                            *)
newline(d) ==
    IF d.y + 1 < ROW_CNT THEN At(0, d.y + 1, d.f)
    ELSE At(0, ROW_CNT - 1,
            clear_row([y \in Rows |-> IF y + 1 < ROW_CNT THEN d.f[y + 1] ELSE d.f[y]], ROW_CNT - 1))

Wrapped(d) == IF d.x >= COL_CNT THEN newline(d) ELSE d

(* ROUND_UP (cx + 1, 8).                                                     *)
NextStop(x) == ((x + Tab) \div Tab) * Tab

(* The switch of vga_putc.                                                   *)
Put(d, c) ==
    CASE c = "nl" -> newline(d)
      [] c = "ff" -> cls
      [] c = "bs" -> IF d.x > 0 THEN At(d.x - 1, d.y, d.f) ELSE d
      [] c = "cr" -> At(0, d.y, d.f)
      [] c = "tab" -> Wrapped(At(NextStop(d.x), d.y, d.f))
      [] OTHER    -> Wrapped(At(d.x + 1, d.y, [d.f EXCEPT ![d.y][d.x] = c]))

(* Mutant: the high byte is written as it comes out of cp & 0xff.            *)
move_cursor_low(x, y) ==
    LET cp == (x + COL_CNT * y) % (Byte * Byte)
    IN  cursor' = <<cp % Byte, cp % Byte>>

(* move_cursor: the two bytes of cx + COL_CNT * cy.                          *)
move_cursor(x, y) ==
    LET cp == (x + COL_CNT * y) % (Byte * Byte)
    IN  cursor' = <<cp \div Byte, cp % Byte>>

(* The same character on the endless sheet.                                  *)
Advance(c) ==
    CASE c = "bs" -> IF col > 0 THEN col - 1 ELSE col
      [] c = "tab" -> NextStop(col)
      [] c \in Glyphs -> col + 1
      [] OTHER -> 0
Write(c) ==
    LET typed == IF c \in Glyphs THEN [text EXCEPT ![Len(text)][col] = c] ELSE text
    IN  /\ col' = IF Advance(c) >= COL_CNT THEN 0 ELSE Advance(c)
        /\ text' = IF c = "ff" THEN <<BlankRow>>
                   ELSE IF c = "nl" \/ Advance(c) >= COL_CNT THEN Append(typed, BlankRow)
                   ELSE typed

(* init (): the first call asks the hardware where the cursor is.            *)
init == IF inited THEN <<cx, cy>> ELSE find_cursor

vga_putc(c) ==
    LET pos == init
        d == Put(At(pos[1], pos[2], fb), c)
    IN  /\ Len(text) < MaxLines \/ c = "ff"
        /\ inited' = TRUE
        /\ cx' = d.x /\ cy' = d.y /\ fb' = d.f
        /\ move_cursor(d.x, d.y)
        /\ Write(c)

Next == \E c \in Glyphs \cup Control : vga_putc(c)
Spec == Init /\ [][Next]_vars

-----------------------------------------------------------------------------
(* vga_putc: the screen shows the last lines of what was written since the   *)
(* display was cleared, through wrapping, tabs, backspaces and scrolling;    *)
(* rows below the text are blank.                                            *)
ScreenShowsLastLines ==
    LET top == IF Len(text) > ROW_CNT THEN Len(text) - ROW_CNT ELSE 0
    IN  \A y \in Rows :
          fb[y] = IF top + y + 1 <= Len(text) THEN text[top + y + 1] ELSE BlankRow

(* vga_putc keeps its cursor on the screen, where the next character of the  *)
(* text goes, and move_cursor and find_cursor agree on it.                   *)
CursorFollowsText ==
    inited => /\ cx \in Columns /\ cy \in Rows
              /\ cx = col
              /\ cy = (IF Len(text) > ROW_CNT THEN ROW_CNT ELSE Len(text)) - 1
              /\ find_cursor = <<cx, cy>>
=============================================================================
