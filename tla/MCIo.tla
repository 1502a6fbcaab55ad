-------------------------------- MODULE MCIo ---------------------------------
(***************************************************************************)
(* Device drivers, interrupt dispatch and file system on small instances,  *)
(* one at a time: unit says which, and x1, x2, ... are that unit's         *)
(* variables, renamed by the INSTANCE.  The properties below are those of  *)
(* the modules, joined per unit.                                           *)
(***************************************************************************)
EXTENDS Integers, Sequences, TLC

CONSTANTS w1, w2, r1, r2, NoThread, NoByte,
          Names, BadNames, Files, MallocFails, Null, Off

VARIABLES unit, x1, x2, x3, x4, x5, x6, x7, x8, x9, x10, x11, x12, x13, x14

vars == <<unit, x1, x2, x3, x4, x5, x6, x7, x8, x9, x10, x11, x12, x13, x14>>
From7 == <<x7, x8, x9, x10, x11, x12, x13, x14>>
From8 == <<x8, x9, x10, x11, x12, x13, x14>>
From9 == <<x9, x10, x11, x12, x13, x14>>
From12 == <<x12, x13, x14>>
From13 == <<x13, x14>>
From14 == <<x14>>
Off14 == x14 = Off
Off13 == x13 = Off /\ Off14
Off12 == x12 = Off /\ Off13
Off9 == x9 = Off /\ x10 = Off /\ x11 = Off /\ Off12
Off8 == x8 = Off /\ Off9
Off7 == x7 = Off /\ Off8

-----------------------------------------------------------------------------
(* Two printing and two reading threads on queues of two bytes.            *)
Port == INSTANCE Serial WITH
    INTQ_BUFSIZE <- 3, Writers <- {w1, w2}, Readers <- {r1, r2}, MaxOut <- 4, MaxIn <- 3,
    mode <- x1, inited <- x2, q <- x3, ier <- x4, thr <- x5, rbr <- x6, pc <- x7, arg <- x8,
    blocked <- x9, halted <- x10, accepted <- x11, line <- x12, typed <- x13, read <- x14

(* Two threads; two lines on each controller, one of them without handler. *)
Dispatch == INSTANCE Interrupt WITH
    Threads <- {w1, w2}, MasterLines <- {0, 7}, SlaveLines <- {14, 15}, Registered <- {0, 14, 15},
    MaxRaises <- 2, MaxGlitches <- 1, MaxOff <- 1, None <- Off, irr <- x1, isr_m <- x2, isr_s <- x3,
    current <- x4, int_on <- x5, th <- x6, in_external_intr <- x7, yield_on_return <- x8,
    panic <- x9, raised <- x10, glitches <- x11, offs <- x12, served <- x13

(* Two threads that print, at most two calls inside one another.           *)
Output == INSTANCE Console WITH
    Threads <- {w1, w2}, MaxLen <- 1, MaxDepth <- 2, MaxWritten <- 4, use_console_lock <- x1,
    console_lock_depth <- x2, write_cnt <- x3, value <- x4, holder <- x5, calls <- x6,
    panicked <- x7, mixed <- x8

(* A letter, a digit, a bracket, all Shift, Alt and Ctrl keys, Caps Lock.  *)
Keyboard == INSTANCE Kbd WITH
    Keys <- {30, 2, 26, 42, 54, 56, 57400, 29, 57373, 58}, MaxKeys <- 1, shift_state <- x1,
    caps_lock <- x2, key_cnt <- x3, last <- x4, held <- x5, caps_on <- x6

(* Two rows of four columns.                                               *)
Screen == INSTANCE Vga WITH
    COL_CNT <- 4, ROW_CNT <- 2, Tab <- 2, Byte <- 3, Glyphs <- {w1}, Blank <- Off, MaxLines <- 4,
    inited <- x1, cx <- x2, cy <- x3, fb <- x4, cursor <- x5, text <- x6, col <- x7

(* Two valid names and an invalid one, files of up to two sectors, a disk  *)
(* of seven sectors, a directory of two entries, and one stop.             *)
Directory == INSTANCE Filesys WITH
    Sizes <- {0, 1, 2}, NSectors <- 7, DirSlots <- 2, MaxFiles <- 2, MaxStops <- 1,
    dmap <- x1, dinode <- x2, slot <- x3, dirty <- x4, up <- x5, free_map <- x6, open <- x7, files <- x8,
    op <- x9, stops <- x10, leaked <- x11, written <- x12

(* A file of one and a third sectors and two openers.                      *)
Contents == INSTANCE Inode WITH
    SectorSize <- 3, Length <- 4, MaxPos <- 4, MaxSize <- 4, Bytes <- 2,
    disk <- x1, open_cnt <- x2, deny_write_cnt <- x3, file <- x4, io <- x5, contents <- x6

(* Command lines of up to four actions and some malformed ones; archives    *)
(* with two entries, malformed or of up to one and a half sectors.          *)
Acts == {<<"put", "a">>, <<"put", "b">>, <<"get", "a">>, <<"get", "b">>, <<"rm", "a">>, <<"cat", "a">>, <<"ls">>, <<>>}
Sector(sig, size, data) == [sig |-> sig, size |-> size, data |-> data]
Entry(n) ==
    <<Sector("PUT", n, <<0, 0>>)>>
    \o CASE n <= 0 -> <<>>
         [] n = 1 -> <<Sector("", 0, <<1, 0>>)>>
         [] n = 2 -> <<Sector("", 0, <<1, 2>>)>>
         [] n = 3 -> <<Sector("", 0, <<1, 2>>), Sector("", 0, <<3, 0>>)>>
Utilities == INSTANCE Fsutil WITH
    SectorSize <- 2, Words <- {"a", "b"}, Capacity <- 5,
    Lines <- {x \o y \o z \o w : x, y, z, w \in Acts}
             \cup {<<"put">>, <<"put", "a", "get">>, <<"mv", "a">>, <<"put", "c">>, <<"ls", "ls", "rm", "b">>},
    Archives <- {Entry(m) \o Entry(n) : m, n \in -1 .. 3},
    argv <- x1, fs <- x2, scratch <- x3, put_sector <- x4, get_sector <- x5, act <- x6,
    archive <- x7, entries <- x8, listing <- x9, ref <- x10, out <- x11

-----------------------------------------------------------------------------
Init ==
    \/ unit = "serial" /\ Port!Init
    \/ unit = "interrupt" /\ Dispatch!Init /\ Off14
    \/ unit = "console" /\ Output!Init /\ Off9
    \/ unit = "kbd" /\ Keyboard!Init /\ Off7
    \/ unit = "vga" /\ Screen!Init /\ Off8
    \/ unit = "filesys" /\ Directory!Init /\ Off13
    \/ unit = "inode" /\ Contents!Init /\ Off7
    \/ unit = "fsutil" /\ Utilities!Init /\ Off12

UnitStep ==
    \/ unit = "serial" /\ Port!Next
    \/ unit = "interrupt" /\ Dispatch!Next /\ UNCHANGED From14
    \/ unit = "console" /\ Output!Next /\ UNCHANGED From9
    \/ unit = "kbd" /\ Keyboard!Next /\ UNCHANGED From7
    \/ unit = "vga" /\ Screen!Next /\ UNCHANGED From8
    \/ unit = "filesys" /\ Directory!Next /\ UNCHANGED From13
    \/ unit = "inode" /\ Contents!Next /\ UNCHANGED From7
    \/ unit = "fsutil" /\ Utilities!Next /\ UNCHANGED From12

Next == UnitStep /\ UNCHANGED unit

Spec == Init /\ [][Next]_vars

(* Struct files are interchangeable.                                       *)
Symmetry == Permutations(Files)

-----------------------------------------------------------------------------
(* Every byte that serial_putc accepted is on the line, in the UART or in    *)
(* the queue, in the order in which it was accepted, also when a byte goes   *)
(* out by polling because the queue is full and interrupts are off; bytes    *)
(* from both input devices reach readers in order, and none is put into a    *)
(* full buffer.                                                              *)
BytesInOrder == unit = "serial" => Port!TypeOK /\ Port!OutputInOrder /\ Port!InputInOrder

(* write_ier leaves the interrupts enabled that the queues call for, and a   *)
(* thread asleep in wait() is the one its queue will wake, once.             *)
WaitersWillBeWoken == unit = "serial" => Port!IerTracksQueues /\ Port!WaiterIsKnown

(* External interrupts do not nest, though handlers yield on the interrupted *)
(* stack and other threads take interrupts meanwhile, nothing stays in       *)
(* service on a controller once its handler is done, and every request is    *)
(* accounted for, neither lost nor served twice.                             *)
InterruptsPaired ==
    unit = "interrupt" => /\ Dispatch!OneExternalAtATime /\ Dispatch!AcknowledgesWhatItServes
                          /\ Dispatch!RequestsAccounted

(* Two calls of vprintf do not mix their characters, whatever is nested in   *)
(* them; the screen shows the last lines of what was printed, with the       *)
(* cursor where the next character goes.                                     *)
OutputIsWhole ==
    /\ unit = "console" => Output!OutputNotMixed /\ Output!DepthCountsNesting
    /\ unit = "vga" => Screen!ScreenShowsLastLines /\ Screen!CursorFollowsText

(* keyboard_interrupt: the shift state is that of the keys held, over        *)
(* prefixes and auto-repeat, and a key puts the character of its cap under   *)
(* the modifiers held into the input buffer.                                 *)
KeysTranslated ==
    /\ [](unit = "kbd" => Keyboard!ModifiersFollowKeys)
    /\ [][unit = "kbd" => Keyboard!KeyStep]_vars

(* A stop may come between any two sector writes.  On the disk every entry   *)
(* refers to an inode and sectors that the map on disk marks, shared with    *)
(* nobody, and to zeroed data in a new file; in memory the free map marks    *)
(* the sectors of files, of removed files still open, and those lost by a    *)
(* failed create; names are unique, and dir_add overwrites no entry in use.  *)
FilesysConsistent ==
    /\ [](unit = "filesys" =>
            /\ Directory!DiskSurvivesStop /\ Directory!FreshFileIsZero
            /\ Directory!SectorsAccounted /\ Directory!NamesUnique)
    /\ [][unit = "filesys" => Directory!EntriesKept]_vars

(* inode_read_at and inode_write_at, chunk by chunk through bounce buffers    *)
(* that may not be had, move the bytes they say they moved and no others,    *)
(* and deny_write_cnt is the number of open files that deny writes.          *)
TransfersAreExact ==
    unit = "inode" => Contents!ReadsSeeWrites /\ Contents!WritesStayInFile /\ Contents!DenialsCounted

(* Each put takes the next entry of the archive, and each get lays its file   *)
(* out behind the one before, whatever ran in between.                       *)
ScratchInSequence == unit = "fsutil" => Utilities!PutsFollowArchive /\ Utilities!GetsAppend
=============================================================================
